---- MODULE Spec2Model ----
(***************************************************************************)
(* Model of the analytical engine and tool bridge of the supply-chain      *)
(* intelligence platform: DemandForecaster, DeliveryPredictor,             *)
(* SupplierScorer, execute_tool and SupplyChainAgent.chat.                 *)
(*                                                                         *)
(* Each subsystem has its own variables and its own specification          *)
(* (SpecForecast, SpecDelivery, SpecTool, SpecChat, SpecScore,             *)
(* SpecInventory, SpecMatch); the variables of the other subsystems stay   *)
(* at their idle values.                                                   *)
(***************************************************************************)
EXTENDS Integers, Sequences, FiniteSets, TLC

VARIABLES
    forecasters,    \* DemandForecaster instances: id -> [model, feature_columns]
    trainCache,     \* st.cache_resource of DemandForecaster.train: set of <<ds, cat>>
    fTrained,       \* id -> key of the last train call that returned on that instance
    fResult,        \* outcome of the last DemandForecaster / run_demand_forecast call
    predictors,     \* DeliveryPredictor instances: id -> [model, label_encoders, feature_columns]
    dpCache,        \* st.cache_resource of DeliveryPredictor.train: set of datasets
    dResult,        \* outcome of the last DeliveryPredictor call
    tCall,          \* execute_tool: the call being made (tool_name, arguments, df)
    tResult,        \* execute_tool: what the call returned or raised
    client,         \* SupplyChainAgent.client: "openai" or "none"
    conversation_history,  \* SupplyChainAgent.conversation_history
    messages,       \* chat: the local message list sent with each request
    pc,             \* chat: "idle" between calls, "request" at the top of the loop,
                    \*       "tools" while the tool calls of a response are run
    iteration,      \* chat: rounds of the for loop completed
    requests,       \* chat: requests sent to the reasoning service in this call
    pending,        \* chat: tool calls of the current response not yet run
    chatSteps,      \* chat: loop steps taken by this call
    lastExec,       \* chat: the tool call run last (name, payload, arguments, result)
    chatResult,     \* chat: what the last call returned
    chats,          \* number of chat calls made
    scoreInput,     \* score_suppliers: the df argument, a sequence of orders
    scoreRows,      \* score_suppliers: the returned rows, best score first
    invCall,        \* InventoryOptimizer: the call made (operation and arguments)
    invResult,      \* InventoryOptimizer: what the call returned
    routed,         \* _fallback_response: the last message, its tool call and response
    responses,      \* every <<message, response>> the keyword router has given
    lastError,      \* chat: str(e) of the failed request, NoError if none failed
    mCall,          \* name matching: the tool, the result table and the query
    mResult,        \* name matching: what the tool reported
    suggestions,    \* get_improvement_suggestions: the returned list, NoCall before the call
    frame           \* the dataset the session passes to chat

forecastVars == <<forecasters, trainCache, fTrained, fResult>>
deliveryVars == <<predictors, dpCache, dResult>>

toolVars == <<tCall, tResult>>

chatVars == <<client, conversation_history, messages, pc, iteration, requests, pending,
              chatSteps, lastExec, chatResult, chats, routed, responses, lastError, frame>>

vars == <<forecasters, trainCache, fTrained, fResult, predictors, dpCache, dResult,
          tCall, tResult, client, conversation_history, messages, pc, iteration,
          requests, pending, chatSteps, lastExec, chatResult, chats,
          scoreInput, scoreRows, invCall, invResult, routed, responses, lastError,
          mCall, mResult,
          suggestions,
          frame>>

\* What the calls of one subsystem leave alone.
scoreVars == <<scoreInput, scoreRows, suggestions>>

inventoryVars == <<invCall, invResult>>

matchVars == <<mCall, mResult>>

outsideForecast == <<deliveryVars, toolVars, chatVars, scoreVars, inventoryVars, matchVars>>
outsideDelivery == <<forecastVars, toolVars, chatVars, scoreVars, inventoryVars, matchVars>>
outsideTool == <<forecastVars, deliveryVars, chatVars, scoreVars, inventoryVars, matchVars>>
outsideChat == <<forecastVars, deliveryVars, toolVars, scoreVars, inventoryVars, matchVars>>
outsideScore == <<forecastVars, deliveryVars, toolVars, chatVars, inventoryVars, matchVars>>
outsideInventory == <<forecastVars, deliveryVars, toolVars, chatVars, scoreVars, matchVars>>
outsideMatch == <<forecastVars, deliveryVars, toolVars, chatVars, scoreVars, inventoryVars>>

----------------------------------------------------------------------------
(* Bounds *)

MaxHorizon == 2

(* Program constants *)
MaxLag == 28
RecentWindow == 30

----------------------------------------------------------------------------
(* Datasets of the forecasting engine.  A dataset is a set of order rows   *)
(* [order_id, date, cat, qty]; dates are day numbers.                      *)

None == 0                      \* Python None (category not given)
Categories == {1, 2}
DatasetIds == {1, 2}
\* The (dataset, category) requests the callers make.
Requests == {<<1, None>>, <<1, 1>>, <<1, 2>>, <<2, None>>}

\* Dataset 1: category 1 ordered on every day 1..31, category 2 on days 1..29.
\* Dataset 2: category 1 only, days 1..62 with no orders on days 10 and 20.
Orders(ds) ==
    IF ds = 1
    THEN {[order_id |-> d, date |-> d, cat |-> 1, qty |-> 1 + (d % 3)] : d \in 1..31}
         \cup {[order_id |-> 100 + d, date |-> d, cat |-> 2, qty |-> 2] : d \in 1..29}
    ELSE {[order_id |-> d, date |-> d, cat |-> 1, qty |-> 1 + (d % 5)] :
              d \in (1..62) \ {10, 20}}

RECURSIVE SumQty(_)
SumQty(S) ==
    IF S = {} THEN 0
    ELSE LET o == CHOOSE x \in S : TRUE IN o.qty + SumQty(S \ {o})

\* groupby(order_date.dt.date) yields the dates that have orders, ascending.
SortedDates(D) ==
    IF D = {} THEN <<>>
    ELSE LET lo == CHOOSE x \in D : \A y \in D : x <= y
             hi == CHOOSE x \in D : \A y \in D : x >= y
         IN SelectSeq([j \in 1..(hi - lo + 1) |-> lo + j - 1], LAMBDA d : d \in D)

\* _prepare_data, lines 52-54: the category filter (skipped when category is None).
FilteredOrders == [k \in Requests |->
    IF k[2] # None THEN {o \in Orders(k[1]) : o.cat = k[2]} ELSE Orders(k[1])]

OrderDates == [k \in Requests |-> SortedDates({o.date : o \in FilteredOrders[k]})]

\* _prepare_data, lines 56-64: one row per date that has orders, demand summed.
DailyRows(orders, dates) ==
    [j \in 1..Len(dates) |->
        [order_date |-> dates[j],
         demand |-> SumQty({o \in orders : o.date = dates[j]})]]

DailyDemand == [k \in Requests |-> DailyRows(FilteredOrders[k], OrderDates[k])]

Lags == {1, 7, 14, 28}

\* _prepare_data, lines 66-68: demand.shift(lag) is positional (the row lag
\* positions earlier); the value is undefined for the first lag rows.
ShiftRows(daily) ==
    [j \in 1..Len(daily) |->
        [order_date |-> daily[j].order_date,
         demand |-> daily[j].demand,
         lag |-> [g \in Lags |-> IF j - g >= 1 THEN daily[j - g].demand ELSE -1],
         defined |-> j - MaxLag >= 1]]

LagRows == [k \in Requests |-> ShiftRows(DailyDemand[k])]

\* _prepare_data, line 83: dropna removes the rows with an undefined lag.
Prepared == [k \in Requests |-> SelectSeq(LagRows[k], LAMBDA r : r.defined)]

----------------------------------------------------------------------------
(* DemandForecaster *)

NoKey == <<0, 0>>              \* model is None / no train call has returned
FeatureColumns == {"revenue", "num_orders", "avg_price", "avg_discount",
                   "demand_lag", "demand_rolling", "time_features"}
RawPredictions == {-1, 2}      \* values XGBRegressor.predict may produce
\* The fitted model's outputs over a horizon of h days: one value for the odd
\* days and one for the even days.
RawOutputs(h) ==
    {[j \in 1..h |-> IF j % 2 = 1 THEN p[1] ELSE p[2]] : p \in RawPredictions \X RawPredictions}

Max(a, b) == IF a >= b THEN a ELSE b

\* DemandForecaster.__init__
FreshForecaster == [model |-> NoKey, feature_columns |-> {}]

NoRows == <<>>
IdleFResult == [op |-> "none", inst |-> 0, key |-> NoKey, horizon |-> 0,
                kind |-> "none", cached |-> FALSE, rows |-> NoRows,
                error |-> "none", train_dates |-> <<>>, test_dates |-> <<>>]

\* train_test_split(test_size=0.2, shuffle=False): n_test = ceil(0.2 n),
\* n_train = n - n_test; raises ValueError when the train part would be empty.
TestRows(n) == (n + 4) \div 5
TrainRows(n) == n - TestRows(n)

\* The split with the training rows taken from the end of the series.
TrainPartFromEnd(rows) == SubSeq(rows, TestRows(Len(rows)) + 1, Len(rows))

\* Lines 101-104, shuffle=False: X_train is the first n_train rows of the
\* feature rows, X_test the rows after them.
TrainPart(rows) == SubSeq(rows, 1, TrainRows(Len(rows)))
TestPart(rows) == SubSeq(rows, TrainRows(Len(rows)) + 1, Len(rows))
RowDates(rows) == [j \in 1..Len(rows) |-> rows[j].order_date]

\* Body of DemandForecaster.train (lines 98-130) on instance record f; the
\* exception of an empty training part is train_test_split's ValueError.
TrainBody(f, ds, cat) ==
    LET n  == Len(Prepared[<<ds, cat>>])
        f1 == [f EXCEPT !.feature_columns = FeatureColumns]
    IN IF n = 0 \/ TrainRows(n) = 0
       THEN [inst |-> f1, kind |-> "raised", error |-> "ValueError",
             train_dates |-> <<>>, test_dates |-> <<>>]
       ELSE [inst |-> [f1 EXCEPT !.model = <<ds, cat>>], kind |-> "returned",
             error |-> "none",
             train_dates |-> RowDates(TrainPart(Prepared[<<ds, cat>>])),
             test_dates |-> RowDates(TestPart(Prepared[<<ds, cat>>]))]

\* @st.cache_resource on train (line 95): the key is (df, category); _self is
\* not part of the key; on a hit the cached return value is handed back and the
\* body does not run.
CachedTrain(f, cache, ds, cat) ==
    IF <<ds, cat>> \in cache
    THEN [inst |-> f, cache |-> cache, kind |-> "returned", cached |-> TRUE,
          error |-> "none", train_dates |-> <<>>, test_dates |-> <<>>]
    ELSE LET r == TrainBody(f, ds, cat)
         IN [inst |-> r.inst,
             cache |-> IF r.kind = "returned" THEN cache \cup {<<ds, cat>>} ELSE cache,
             kind |-> r.kind, cached |-> FALSE,
             error |-> r.error, train_dates |-> r.train_dates,
             test_dates |-> r.test_dates]

\* forecast_future, lines 163-198: one row per future date; the lag features
\* are read from recent_demands, the clamped prediction is appended to it.
RECURSIVE ForecastLoop(_, _, _, _)
ForecastLoop(recent, date, raw, i) ==
    IF i > Len(raw) THEN <<>>
    ELSE LET lagf == [k \in Lags |->
                         LET idx == Len(recent) - k
                         IN IF idx >= 0 THEN recent[idx + 1] ELSE recent[1]]
             pred == Max(0, raw[i])
         IN <<[date |-> date, predicted_demand |-> pred, lag |-> lagf]>>
            \o ForecastLoop(Append(recent, pred), date + 1, raw, i + 1)

LastN(s, n) == IF Len(s) <= n THEN s ELSE SubSeq(s, Len(s) - n + 1, Len(s))

\* forecast_future (lines 142-200); raw are the regressor's outputs, one per
\* future date.
ForecastFuture(f, ds, cat, raw) ==
    IF f.model = NoKey
    THEN [kind |-> "returned", rows |-> NoRows]
    ELSE LET daily == Prepared[<<ds, cat>>]
         IN IF Len(daily) = 0
            THEN [kind |-> "raised", rows |-> NoRows]
            ELSE LET last_date == daily[Len(daily)].order_date
                     recent == LastN([j \in 1..Len(daily) |-> daily[j].demand],
                                     RecentWindow)
                 IN [kind |-> "returned",
                     rows |-> ForecastLoop(recent, last_date + 1, raw, 1)]

\* get_feature_importance (lines 132-140): empty when untrained.
FeatureImportance(f) ==
    IF f.model = NoKey THEN NoRows
    ELSE <<[feature |-> "ranked", importance |-> 1]>>

\* _run_forecast (tools.py lines 272-298) under execute_tool's try/except
\* (lines 202-206): a fresh forecaster, train, forecast_future, then the
\* summary reads forecast['predicted_demand'].
RunForecast(cache, ds, cat, raw) ==
    LET t == CachedTrain(FreshForecaster, cache, ds, cat)
    IN IF t.kind = "raised"
       THEN [cache |-> t.cache, kind |-> "error", cached |-> t.cached, rows |-> NoRows]
       ELSE LET fc == ForecastFuture(t.inst, ds, cat, raw)
            IN IF fc.kind = "raised" \/ Len(fc.rows) = 0
               THEN [cache |-> t.cache, kind |-> "error", cached |-> t.cached,
                     rows |-> NoRows]
               ELSE [cache |-> t.cache, kind |-> "payload", cached |-> t.cached,
                     rows |-> fc.rows]

----------------------------------------------------------------------------
(* DemandForecaster: instances and calls *)

ForecasterIds == {1, 2}
Horizons == 0..MaxHorizon


\* A page or tool constructs a new DemandForecaster().
NewForecaster(i) ==
    /\ forecasters' = [forecasters EXCEPT ![i] = FreshForecaster]
    /\ fTrained' = [fTrained EXCEPT ![i] = NoKey]
    /\ fResult' = [IdleFResult EXCEPT !.op = "new", !.inst = i]
    /\ UNCHANGED <<trainCache, outsideForecast>>

Train(i, ds, cat) ==
    LET t == CachedTrain(forecasters[i], trainCache, ds, cat)
    IN /\ forecasters' = [forecasters EXCEPT ![i] = t.inst]
       /\ trainCache' = t.cache
       /\ fTrained' = IF t.kind = "returned"
                      THEN [fTrained EXCEPT ![i] = <<ds, cat>>]
                      ELSE fTrained
       /\ fResult' = [IdleFResult EXCEPT !.op = "train", !.inst = i,
                          !.key = <<ds, cat>>, !.kind = t.kind, !.cached = t.cached,
                          !.error = t.error, !.train_dates = t.train_dates,
                          !.test_dates = t.test_dates]
       /\ UNCHANGED outsideForecast

Forecast(i, ds, cat, h) ==
    \E raw \in RawOutputs(h) :
        LET r == ForecastFuture(forecasters[i], ds, cat, raw)
        IN /\ fResult' = [IdleFResult EXCEPT !.op = "forecast_future", !.inst = i,
                              !.key = <<ds, cat>>, !.horizon = h,
                              !.kind = r.kind, !.rows = r.rows]
           /\ UNCHANGED <<forecasters, trainCache, fTrained, outsideForecast>>

GetFeatureImportance(i) ==
    /\ fResult' = [IdleFResult EXCEPT !.op = "get_feature_importance", !.inst = i,
                       !.kind = "returned",
                       !.rows = FeatureImportance(forecasters[i])]
    /\ UNCHANGED <<forecasters, trainCache, fTrained, outsideForecast>>

RunForecastTool(ds, cat, h) ==
    \E raw \in RawOutputs(h) :
        LET r == RunForecast(trainCache, ds, cat, raw)
        IN /\ trainCache' = r.cache
           /\ fResult' = [IdleFResult EXCEPT !.op = "run_demand_forecast",
                              !.key = <<ds, cat>>, !.horizon = h, !.kind = r.kind,
                              !.cached = r.cached, !.rows = r.rows]
           /\ UNCHANGED <<forecasters, fTrained, outsideForecast>>

NextForecast ==
    \/ \E i \in ForecasterIds : NewForecaster(i)
    \/ \E i \in ForecasterIds, k \in Requests : Train(i, k[1], k[2])
    \/ \E i \in ForecasterIds, k \in Requests, h \in Horizons :
           Forecast(i, k[1], k[2], h)
    \/ \E i \in ForecasterIds : GetFeatureImportance(i)
    \/ \E k \in Requests, h \in 1..MaxHorizon : RunForecastTool(k[1], k[2], h)

----------------------------------------------------------------------------
(* Tool bridge: execute_tool and the seven tool implementations *)

MaxArgs == 2                   \* most keys of an argument object

\* tool_map, tools.py lines 189-197.
ToolNames == {"query_supply_chain_data", "run_demand_forecast", "analyze_supplier",
              "check_inventory_status", "predict_delivery_risk", "get_top_products",
              "compare_regions"}
CalledNames == ToolNames \cup {"nonexistent_tool"}

\* The keyword parameters of each implementation besides df (their def lines).
ToolParams(tool) ==
    CASE tool = "query_supply_chain_data" ->
             {"category", "region", "department", "metric", "time_period"}
      [] tool = "run_demand_forecast" -> {"category", "horizon_days"}
      [] tool = "analyze_supplier" -> {"supplier_name"}
      [] tool = "check_inventory_status" -> {"category"}
      [] tool = "predict_delivery_risk" ->
             {"category", "region", "shipping_mode", "quantity"}
      [] tool = "get_top_products" -> {"metric", "top_n"}
      [] OTHER -> {}

\* Parameters without a default value.
RequiredParams(tool) == IF tool = "analyze_supplier" THEN {"supplier_name"} ELSE {}

\* Keys an argument object may carry: the real parameter names, a name no
\* tool accepts, and df (which execute_tool passes itself).
ArgNames == {"category", "region", "department", "metric", "time_period",
             "horizon_days", "supplier_name", "shipping_mode", "quantity", "top_n",
             "bogus", "df"}

\* Kinds of argument value: a string naming rows of the dataset, a string
\* matching no row, a string contained in no name that is not a valid
\* regular expression (such as "("), a positive integer (such as 5), a
\* negative integer (such as -1), a number with a fractional part (2.5).
ValueKinds == {"match", "nomatch", "bad_pattern", "number", "negative", "fraction"}
\* The parameters compared with names of the dataset by str.contains.
TextFilters == {"category", "region", "department", "supplier_name", "shipping_mode"}
\* Kinds a key is tried with: strings, regular expressions and a positive
\* integer for a text filter; strings and a positive integer for the other
\* parameters, with a negative integer for horizon_days and a fraction for
\* top_n; one value for a key binding rejects.
KindsOf(n) ==
    IF n \in TextFilters THEN {"match", "nomatch", "bad_pattern", "number"}
    ELSE IF n \in {"bogus", "df"} THEN {"match"}
    ELSE IF n = "horizon_days" THEN {"match", "nomatch", "number", "negative"}
    ELSE IF n = "top_n" THEN {"match", "nomatch", "number", "fraction"}
    ELSE {"match", "nomatch", "number"}
ArgObjects ==
    UNION {{a \in [d -> ValueKinds] : \A n \in d : a[n] \in KindsOf(n)} :
               d \in {x \in SUBSET ArgNames : Cardinality(x) <= MaxArgs}}
Frames == {"orders", "zero_rows"}

Given(args, n) == n \in DOMAIN args
Is(args, n, kind) == n \in DOMAIN args /\ args[n] = kind

\* f(df=df, **arguments), line 203: TypeError for a key that is no parameter,
\* for a second df, and for a missing required parameter.
BindRaises(tool, args) ==
    \/ \E n \in DOMAIN args : n \notin ToolParams(tool)
    \/ \E n \in RequiredParams(tool) : n \notin DOMAIN args

\* Series.str.contains(x, case=False) takes x as a regular expression: it
\* raises re.error for a text that is none, and TypeError for a number.
ContainsRaises(args, names) ==
    \E n \in names : Is(args, n, "number") \/ Is(args, n, "bad_pattern")

RaisedOutcome == [raised |-> TRUE, keys |-> {}]
Payload(keys) == [raised |-> FALSE, keys |-> keys]

SummaryKeys == {"total_orders", "total_revenue", "total_profit", "avg_order_value",
                "late_delivery_rate", "avg_shipping_days", "top_category",
                "top_region", "date_range"}

\* _query_data, lines 209-269.
QueryData(args, df) ==
    IF ContainsRaises(args, {"category", "region", "department"})
    THEN RaisedOutcome
    ELSE IF df = "zero_rows"
            \/ \E n \in {"category", "region", "department"} : Is(args, n, "nomatch")
    THEN Payload({"message"})
    ELSE Payload(SummaryKeys \cup (IF Is(args, "metric", "match")
                                   THEN {"requested_metric"} ELSE {}))

\* _run_forecast, line 282: train(df, category) runs and returns on the
\* populated dataset for no category or a category naming rows.
TrainReturns(args, df) ==
    df = "orders" /\ (~Given(args, "category") \/ Is(args, "category", "match"))
\* The key of that call in the st.cache_resource cache of train.
TrainKey(args, df) ==
    <<df, IF Given(args, "category") THEN args["category"] ELSE "None">>

\* _run_forecast, lines 272-298: train raises on data without enough daily
\* rows; a train served from the cache leaves the new forecaster without a
\* model, and the summary then raises KeyError, as it does when
\* forecast_future makes no row (horizon_days below 1); periods must be an
\* integer.
RunForecastBody(args, df, cacheHit) ==
    IF \/ df = "zero_rows"
       \/ Is(args, "category", "nomatch") \/ Is(args, "category", "number")
       \/ Is(args, "category", "bad_pattern")
       \/ (Given(args, "horizon_days") /\ ~Is(args, "horizon_days", "number"))
       \/ cacheHit
    THEN RaisedOutcome
    ELSE Payload({"category", "forecast_horizon", "model_metrics", "forecast_summary"})

\* _analyze_supplier, lines 301-336: MinMaxScaler raises on zero departments.
AnalyzeSupplier(args, df) ==
    IF df = "zero_rows" \/ ContainsRaises(args, {"supplier_name"})
    THEN RaisedOutcome
    ELSE IF Is(args, "supplier_name", "nomatch")
    THEN Payload({"error", "available_suppliers"})
    ELSE Payload({"supplier", "overall_score", "grade", "risk_level", "metrics", "stats"})

\* _check_inventory, lines 339-377: an empty analysis has no category column.
CheckInventory(args, df) ==
    IF ~Given(args, "category")
    THEN Payload({"total_categories", "categories"})
    ELSE IF df = "zero_rows" \/ ContainsRaises(args, {"category"})
    THEN RaisedOutcome
    ELSE IF Is(args, "category", "nomatch")
    THEN Payload({"error"})
    ELSE Payload({"category", "avg_daily_demand", "demand_variability", "annual_demand",
                  "optimal_safety_stock_95", "optimal_safety_stock_99", "eoq",
                  "reorder_point", "late_delivery_rate", "recommendations"})

\* _predict_delivery, lines 380-427: a filter matching nothing is dropped.
PredictDelivery(args, df) ==
    IF ContainsRaises(args, {"category", "region", "shipping_mode"})
    THEN RaisedOutcome
    ELSE Payload({"parameters", "prediction", "recommendation"})

\* _get_top_products, lines 430-461: head(top_n) raises TypeError for a
\* string and for a float.
GetTopProducts(args, df) ==
    IF Given(args, "top_n") /\ ~Is(args, "top_n", "number")
    THEN RaisedOutcome
    ELSE Payload({"metric", "top_products"})

\* _compare_regions, lines 464-488.
CompareRegions(args, df) == Payload({"regions"})

\* tool_map[tool_name](df=df, **arguments), line 203.
CallTool(tool, args, df, cacheHit) ==
    IF BindRaises(tool, args) THEN RaisedOutcome
    ELSE CASE tool = "query_supply_chain_data" -> QueryData(args, df)
           [] tool = "run_demand_forecast" -> RunForecastBody(args, df, cacheHit)
           [] tool = "analyze_supplier" -> AnalyzeSupplier(args, df)
           [] tool = "check_inventory_status" -> CheckInventory(args, df)
           [] tool = "predict_delivery_risk" -> PredictDelivery(args, df)
           [] tool = "get_top_products" -> GetTopProducts(args, df)
           [] OTHER -> CompareRegions(args, df)

\* json.dumps of a dict: a JSON object with the dict's keys.
JsonObject(keys) == [type |-> "object", keys |-> keys]
NoJson == [type |-> "none", keys |-> {}]

\* execute_tool without the try/except of lines 202-206.
ExecuteToolNoCatch(tool, args, df, cacheHit) ==
    IF tool \notin ToolNames
    THEN [kind |-> "returned", json |-> JsonObject({"error"}), ran |-> FALSE,
          implRaised |-> FALSE]
    ELSE LET r == CallTool(tool, args, df, cacheHit)
         IN IF r.raised
            THEN [kind |-> "raised", json |-> NoJson, ran |-> TRUE, implRaised |-> TRUE]
            ELSE [kind |-> "returned", json |-> JsonObject(r.keys), ran |-> TRUE,
                  implRaised |-> FALSE]

\* execute_tool with tool_map.get(tool_name, _query_data) in place of the
\* membership test of lines 199-200.
ExecuteToolDefaultTool(tool, args, df, cacheHit) ==
    LET r == IF tool \in ToolNames THEN CallTool(tool, args, df, cacheHit)
             ELSE CallTool("query_supply_chain_data", args, df, cacheHit)
    IN IF r.raised
       THEN [kind |-> "returned", json |-> JsonObject({"error"}), ran |-> TRUE,
             implRaised |-> TRUE]
       ELSE [kind |-> "returned", json |-> JsonObject(r.keys), ran |-> TRUE,
             implRaised |-> FALSE]

\* execute_tool, lines 187-206.
ExecuteTool(tool, args, df, cacheHit) ==
    IF tool \notin ToolNames
    THEN [kind |-> "returned", json |-> JsonObject({"error"}), ran |-> FALSE,
          implRaised |-> FALSE]
    ELSE LET r == CallTool(tool, args, df, cacheHit)
         IN IF r.raised
            THEN [kind |-> "returned", json |-> JsonObject({"error"}), ran |-> TRUE,
                  implRaised |-> TRUE]
            ELSE [kind |-> "returned", json |-> JsonObject(r.keys), ran |-> TRUE,
                  implRaised |-> FALSE]

NoArgs == [n \in {} |-> "match"]
IdleTCall == [tool |-> "none", args |-> NoArgs, df |-> "orders"]
IdleTResult == [kind |-> "none", json |-> NoJson, ran |-> FALSE, implRaised |-> FALSE]

ToolCalls ==
    {[tool |-> t, args |-> a, df |-> d] :
        t \in CalledNames, a \in ArgObjects, d \in Frames}

\* execute_tool reaches train: the tool is run_demand_forecast and the
\* arguments bind (line 203).
ReachesTrain(call) ==
    call.tool = "run_demand_forecast" /\ ~BindRaises(call.tool, call.args)

\* The train cache a call may find: empty, or holding the call's own key
\* from an earlier call that trained.
CachesBefore(call) ==
    IF ReachesTrain(call) /\ TrainReturns(call.args, call.df)
    THEN {{}, {TrainKey(call.args, call.df)}}
    ELSE {{}}

\* One call of execute_tool, start to return; a run_demand_forecast call
\* whose train returns leaves its key in the cache.
ExecuteToolCall ==
    /\ tResult.kind = "none"
    /\ tCall.tool # "none"
    /\ tResult' = ExecuteTool(tCall.tool, tCall.args, tCall.df,
                              ReachesTrain(tCall)
                                  /\ TrainKey(tCall.args, tCall.df) \in trainCache)
    /\ trainCache' = IF ReachesTrain(tCall) /\ TrainReturns(tCall.args, tCall.df)
                     THEN trainCache \cup {TrainKey(tCall.args, tCall.df)}
                     ELSE trainCache
    /\ UNCHANGED <<tCall, forecasters, fTrained, fResult, deliveryVars, chatVars,
                   scoreVars, inventoryVars, matchVars>>

NextTool == ExecuteToolCall

----------------------------------------------------------------------------
(* Text: a string is a sequence of characters *)

UpperCase == <<"A", "B", "C", "D", "E", "F", "G", "H", "I", "J", "K", "L", "M",
              "N", "O", "P", "Q", "R", "S", "T", "U", "V", "W", "X", "Y", "Z">>
LowerCase == <<"a", "b", "c", "d", "e", "f", "g", "h", "i", "j", "k", "l", "m",
              "n", "o", "p", "q", "r", "s", "t", "u", "v", "w", "x", "y", "z">>

\* A character of ASCII is the string of that character, but for the grave
\* accent, U+0060; a character outside ASCII is named by its code point.  Of
\* those the texts here have the capital letters U+00C9 (E with acute),
\* U+00D6 (O with diaeresis), U+0130 (I with dot above), U+03A3 (capital
\* sigma) and U+212A (the Kelvin sign), the small letters U+00E9, U+00F6,
\* U+0131 (dotless i), U+017F (long s), U+03C3 and U+03C2 (the final
\* sigma), and the combining dot above, U+0307.
\* U+212A and U+0130 are the only characters outside ASCII whose lower case
\* has an ASCII letter.
IsCased(c) ==
    \/ \E i \in 1..Len(UpperCase) : UpperCase[i] = c \/ LowerCase[i] = c
    \/ c \in {"U+00C9", "U+00D6", "U+0130", "U+03A3", "U+212A",
              "U+00E9", "U+00F6", "U+0131", "U+017F", "U+03C3", "U+03C2"}
IsCaseIgnorable(c) == c \in {"'", ".", ":", "^", "U+0060", "U+0307"}

\* str.lower() on a string of one character: the 26 capital letters of ASCII
\* go to their small letters, U+212A to "k", U+0130 to "i" and the combining
\* dot, the other capital letters to their small letters, and every other
\* character stays.
Lower(c) ==
    IF \E i \in 1..Len(UpperCase) : UpperCase[i] = c
    THEN <<LowerCase[CHOOSE i \in 1..Len(UpperCase) : UpperCase[i] = c]>>
    ELSE CASE c = "U+00C9" -> <<"U+00E9">>
           [] c = "U+00D6" -> <<"U+00F6">>
           [] c = "U+0130" -> <<"i", "U+0307">>
           [] c = "U+03A3" -> <<"U+03C3">>
           [] c = "U+212A" -> <<"k">>
           [] OTHER -> <<c>>

\* A capital sigma is final when a cased character comes before it, with
\* only case-ignorable characters between, and no cased character comes
\* after it in the same way.
FinalSigma(t, i) ==
    /\ \E j \in 1..(i - 1) :
           /\ IsCased(t[j])
           /\ \A k \in (j + 1)..(i - 1) : IsCaseIgnorable(t[k])
    /\ ~\E j \in (i + 1)..Len(t) :
           /\ IsCased(t[j]) /\ ~IsCaseIgnorable(t[j])
           /\ \A k \in (i + 1)..(j - 1) : IsCaseIgnorable(t[k])

\* str.lower() on a string: the lower case of each character in turn, a
\* final capital sigma going to U+03C2.
RECURSIVE LowerUpTo(_, _)
LowerUpTo(t, k) ==
    IF k = 0 THEN <<>>
    ELSE LowerUpTo(t, k - 1)
             \o (IF t[k] = "U+03A3" /\ FinalSigma(t, k) THEN <<"U+03C2">> ELSE Lower(t[k]))
LowerText(t) == LowerUpTo(t, Len(t))

\* Python's "w in t" for two strings: w occurs in t at some position.
OccursAt(w, t, i) ==
    /\ i + Len(w) - 1 <= Len(t)
    /\ \A j \in 1..Len(w) : t[i + j - 1] = w[j]
In(w, t) == \E i \in 1..(Len(t) + 1) : OccursAt(w, t, i)

\* config.py lines 71-80, 93-97 and 84.
PRODUCT_CATEGORIES ==
    <<<<"A", "c", "c", "e", "s", "s", "o", "r", "i", "e", "s">>,
     <<"B", "a", "b", "y">>,
     <<"B", "a", "s", "k", "e", "t", "b", "a", "l", "l">>,
     <<"B", "o", "o", "k", "s">>,
     <<"C", "a", "m", "p", "i", "n", "g", " ", "&", " ", "H", "i", "k", "i", "n", "g">>,
     <<"C", "a", "r", "d", "i", "o", " ", "E", "q", "u", "i", "p", "m", "e", "n", "t">>,
     <<"C", "h", "i", "l", "d", "r", "e", "n", "'", "s", " ", "C", "l", "o", "t", "h", "i", "n", "g">>,
     <<"C", "l", "e", "a", "t", "s">>,
     <<"C", "o", "m", "p", "u", "t", "e", "r", "s">>,
     <<"C", "o", "n", "s", "u", "m", "e", "r", " ", "E", "l", "e", "c", "t", "r", "o", "n", "i", "c", "s">>,
     <<"E", "l", "e", "c", "t", "r", "o", "n", "i", "c", "s">>,
     <<"F", "i", "s", "h", "i", "n", "g">>,
     <<"F", "i", "t", "n", "e", "s", "s", " ", "A", "c", "c", "e", "s", "s", "o", "r", "i", "e", "s">>,
     <<"G", "a", "r", "d", "e", "n">>,
     <<"G", "o", "l", "f", " ", "A", "p", "p", "a", "r", "e", "l">>,
     <<"G", "o", "l", "f", " ", "B", "a", "g", "s", " ", "&", " ", "C", "a", "r", "t", "s">>,
     <<"H", "e", "a", "l", "t", "h", " ", "a", "n", "d", " ", "B", "e", "a", "u", "t", "y">>,
     <<"H", "o", "c", "k", "e", "y">>,
     <<"I", "n", "d", "o", "o", "r", "/", "O", "u", "t", "d", "o", "o", "r", " ", "G", "a", "m", "e", "s">>,
     <<"M", "e", "n", "'", "s", " ", "C", "l", "o", "t", "h", "i", "n", "g">>,
     <<"M", "e", "n", "'", "s", " ", "F", "o", "o", "t", "w", "e", "a", "r">>,
     <<"M", "u", "s", "i", "c">>,
     <<"P", "e", "t", " ", "S", "u", "p", "p", "l", "i", "e", "s">>,
     <<"S", "o", "c", "c", "e", "r">>,
     <<"S", "p", "o", "r", "t", "i", "n", "g", " ", "G", "o", "o", "d", "s">>,
     <<"S", "t", "r", "e", "n", "g", "t", "h", " ", "T", "r", "a", "i", "n", "i", "n", "g">>,
     <<"T", "e", "n", "n", "i", "s", " ", "&", " ", "R", "a", "c", "q", "u", "e", "t">>,
     <<"T", "o", "y", "s">>,
     <<"V", "i", "d", "e", "o", " ", "G", "a", "m", "e", "s">>,
     <<"W", "o", "m", "e", "n", "'", "s", " ", "A", "p", "p", "a", "r", "e", "l">>,
     <<"W", "o", "m", "e", "n", "'", "s", " ", "C", "l", "o", "t", "h", "i", "n", "g">>>>
DEPARTMENTS ==
    <<<<"F", "a", "n", " ", "S", "h", "o", "p">>,
     <<"A", "p", "p", "a", "r", "e", "l">>,
     <<"G", "o", "l", "f">>,
     <<"F", "o", "o", "t", "w", "e", "a", "r">>,
     <<"O", "u", "t", "d", "o", "o", "r", "s">>,
     <<"F", "i", "t", "n", "e", "s", "s">>,
     <<"B", "o", "o", "k", " ", "S", "h", "o", "p">>,
     <<"D", "i", "s", "c", "s", " ", "S", "h", "o", "p">>,
     <<"T", "e", "c", "h", "n", "o", "l", "o", "g", "y">>,
     <<"P", "e", "t", " ", "S", "h", "o", "p">>,
     <<"H", "e", "a", "l", "t", "h", " ", "a", "n", "d", " ", "B", "e", "a", "u", "t", "y">>>>
SHIPPING_MODES ==
    <<<<"S", "t", "a", "n", "d", "a", "r", "d", " ", "C", "l", "a", "s", "s">>,
     <<"S", "e", "c", "o", "n", "d", " ", "C", "l", "a", "s", "s">>,
     <<"F", "i", "r", "s", "t", " ", "C", "l", "a", "s", "s">>,
     <<"S", "a", "m", "e", " ", "D", "a", "y">>>>

----------------------------------------------------------------------------
(* SupplyChainAgent.chat *)

MaxToolCalls == 2              \* most tool calls in one response
MaxChats == 2                  \* chat calls made on one agent

max_iterations == 5            \* supply_chain_agent.py line 53
HistoryWindow == 10            \* conversation_history[-10:], line 84

\* __init__, lines 48-62: a client exists for a key that is neither empty nor
\* the placeholder, when OpenAI(...) constructs it; when the construction
\* raises, the except branch leaves client None.
ApiKeys == {"", "nvapi-your-nvidia-api-key-here", "nvapi-real"}
ClientFor(api_key, constructed) ==
    IF api_key # "" /\ api_key \notin {"", "nvapi-your-nvidia-api-key-here"}
    THEN IF constructed THEN "openai" ELSE "none"
    ELSE "none"

\* Argument payloads of a tool call, by what json.loads does with the text:
\*   "malformed"       not JSON; json.loads raises JSONDecodeError
\*   "malformed_deep"  not JSON, brackets opened deeper than the decoder's
\*                     recursion limit; json.loads raises RecursionError
\*   "object"          a JSON object
\*   "non_object"      a JSON value that is no object (array, number, null)
NonMappingArgs == [n \in {"<not a mapping>"} |-> "number"]
ChatArgObjects == {NoArgs, [n \in {"bogus"} |-> "match"]}
Payloads ==
    {[form |-> "malformed", value |-> NoArgs],
     [form |-> "malformed_deep", value |-> NoArgs]}
    \cup {[form |-> "object", value |-> a] : a \in ChatArgObjects}
    \cup {[form |-> "non_object", value |-> NonMappingArgs]}

\* Lines 115-118: json.loads, with {} for JSONDecodeError only; any other
\* exception of json.loads leaves the try statement.
ParseArguments(payload) ==
    CASE payload.form = "malformed" -> [raised |-> FALSE, arguments |-> NoArgs]
      [] payload.form = "malformed_deep" -> [raised |-> TRUE, arguments |-> NoArgs]
      [] OTHER -> [raised |-> FALSE, arguments |-> payload.value]

\* The names a response calls: tools of TOOL_DEFINITIONS, offered at line 91
\* (among them run_demand_forecast, which trains through the cache), and a
\* name that is none of them.
ChatToolNames ==
    {"query_supply_chain_data", "run_demand_forecast", "analyze_supplier", "nonexistent_tool"}
\* str(e) of the exception a failed request raises.
ServiceErrors ==
    {<<"4", "0", "1", " ", "i", "n", "v", "a", "l", "i", "d", " ", "k", "e", "y">>,
     <<"U", "n", "a", "u", "t", "h", "o", "r", "i", "z", "e", "d">>,
     <<"u", "n", "a", "u", "t", "h", "o", "r", "i", "z", "e", "d">>,
     <<"4", "2", "9", " ", "t", "o", "o", " ", "m", "a", "n", "y", " ", "r", "e", "q", "u", "e", "s", "t", "s">>,
     <<"4", "0", "4", " ", "n", "o", " ", "s", "u", "c", "h", " ", "m", "o", "d", "e", "l">>,
     <<"C", "o", "n", "n", "e", "c", "t", "i", "o", "n", " ", "e", "r", "r", "o", "r", ".">>,
     <<"4", "0", "1", " ", "a", "f", "t", "e", "r", " ", "4", "2", "9">>,
     <<"4", "2", "9", " ", "t", "h", "e", "n", " ", "4", "0", "4">>}
NoError == <<"none">>

Has401(error_msg) == In(<<"4", "0", "1">>, error_msg)
HasUnauthorized(error_msg) == In(<<"U", "n", "a", "u", "t", "h", "o", "r", "i", "z", "e", "d">>, error_msg)
Has429(error_msg) == In(<<"4", "2", "9">>, error_msg)
Has404(error_msg) == In(<<"4", "0", "4">>, error_msg)

\* The guidance of lines 96-105 with the rate-limit test made first.
ErrorGuidanceRateLimitFirst(error_msg) ==
    IF Has429(error_msg) THEN "rate_limit"
    ELSE IF Has401(error_msg) \/ HasUnauthorized(error_msg) THEN "invalid_api_key"
    ELSE IF Has404(error_msg) THEN "model_not_found"
    ELSE "api_error"

\* Lines 96-105: the guidance returned for a failed request.
ErrorGuidance(error_msg) ==
    IF Has401(error_msg) \/ HasUnauthorized(error_msg) THEN "invalid_api_key"
    ELSE IF Has429(error_msg) THEN "rate_limit"
    ELSE IF Has404(error_msg) THEN "model_not_found"
    ELSE "api_error"

LastMessages(h) == LastN(h, HistoryWindow)

NoExec == [name |-> "none", form |-> "none", arguments |-> NoArgs, result |-> IdleTResult]
SystemMessage == [role |-> "system", id |-> <<0, 0>>]

\* The keyword table of _fallback_response, lines 143-190, in the order of
\* its if/elif chain.
KeywordGroups ==
    <<{<<"r", "e", "v", "e", "n", "u", "e">>,
       <<"s", "a", "l", "e", "s">>,
       <<"o", "r", "d", "e", "r">>,
       <<"h", "o", "w", " ", "m", "a", "n", "y">>,
       <<"t", "o", "t", "a", "l">>},
      {<<"f", "o", "r", "e", "c", "a", "s", "t">>,
       <<"p", "r", "e", "d", "i", "c", "t", " ", "d", "e", "m", "a", "n", "d">>,
       <<"f", "u", "t", "u", "r", "e", " ", "d", "e", "m", "a", "n", "d">>},
      {<<"s", "u", "p", "p", "l", "i", "e", "r">>,
       <<"v", "e", "n", "d", "o", "r">>,
       <<"d", "e", "p", "a", "r", "t", "m", "e", "n", "t">>},
      {<<"i", "n", "v", "e", "n", "t", "o", "r", "y">>,
       <<"s", "t", "o", "c", "k">>,
       <<"r", "e", "o", "r", "d", "e", "r">>},
      {<<"d", "e", "l", "i", "v", "e", "r", "y">>,
       <<"l", "a", "t", "e">>,
       <<"d", "e", "l", "a", "y">>,
       <<"s", "h", "i", "p", "p", "i", "n", "g">>},
      {<<"t", "o", "p">>,
       <<"b", "e", "s", "t">>,
       <<"w", "o", "r", "s", "t">>,
       <<"r", "a", "n", "k", "i", "n", "g">>},
      {<<"r", "e", "g", "i", "o", "n">>,
       <<"c", "o", "m", "p", "a", "r", "e">>,
       <<"g", "e", "o", "g", "r", "a", "p", "h", "y">>,
       <<"m", "a", "r", "k", "e", "t">>}>>
GroupCount == Len(KeywordGroups)

\* any(w in msg for w in [...]) for the g-th group.
GroupHit(g, msg) == \E w \in KeywordGroups[g] : In(w, msg)

\* _extract_category, _extract_department, _extract_shipping, lines 203-219:
\* the first name of the list whose lower-cased form occurs in msg, else None.
NoName == <<>>
ExtractFirst(names, msg) ==
    IF \E i \in 1..Len(names) : In(LowerText(names[i]), msg)
    THEN names[CHOOSE i \in 1..Len(names) :
                   /\ In(LowerText(names[i]), msg)
                   /\ \A j \in 1..(i - 1) : ~In(LowerText(names[j]), msg)]
    ELSE NoName
ExtractCategory(msg) == ExtractFirst(PRODUCT_CATEGORIES, msg)
ExtractDepartment(msg) == ExtractFirst(DEPARTMENTS, msg)
ExtractShipping(msg) == ExtractFirst(SHIPPING_MODES, msg)

\* An argument object with the given text and number keys; a key whose value
\* is None is left out, which the tools treat alike.
ArgsOf(textKeys, numberKeys) ==
    [n \in textKeys \cup numberKeys |-> IF n \in numberKeys THEN "number" ELSE "match"]
KeyIf(name, key) == IF name # NoName THEN {key} ELSE {}

\* Lines 143-193: the tool call the lower-cased message leads to.
FallbackCall(msg) ==
    IF GroupHit(1, msg)
    THEN [tool |-> "query_supply_chain_data", arguments |-> ArgsOf({"time_period"}, {}),
          subject |-> NoName]
    ELSE IF GroupHit(2, msg)
    THEN [tool |-> "run_demand_forecast",
          arguments |-> ArgsOf(KeyIf(ExtractCategory(msg), "category"), {"horizon_days"}),
          subject |-> ExtractCategory(msg)]
    ELSE IF GroupHit(3, msg)
    THEN IF ExtractDepartment(msg) # NoName
         THEN [tool |-> "analyze_supplier", arguments |-> ArgsOf({"supplier_name"}, {}),
               subject |-> ExtractDepartment(msg)]
         ELSE [tool |-> "query_supply_chain_data", arguments |-> NoArgs,
               subject |-> NoName]
    ELSE IF GroupHit(4, msg)
    THEN [tool |-> "check_inventory_status",
          arguments |-> ArgsOf(KeyIf(ExtractCategory(msg), "category"), {}),
          subject |-> ExtractCategory(msg)]
    ELSE IF GroupHit(5, msg)
    THEN [tool |-> "predict_delivery_risk",
          arguments |-> ArgsOf(KeyIf(ExtractCategory(msg), "category")
                               \cup KeyIf(ExtractShipping(msg), "shipping_mode"), {}),
          subject |-> ExtractCategory(msg)]
    ELSE IF GroupHit(6, msg)
    THEN [tool |-> "get_top_products", arguments |-> ArgsOf({"metric"}, {"top_n"}),
          subject |-> NoName]
    ELSE IF GroupHit(7, msg)
    THEN [tool |-> "compare_regions", arguments |-> NoArgs, subject |-> NoName]
    ELSE [tool |-> "help", arguments |-> NoArgs, subject |-> NoName]

\* The formatters that test for an "error" key: _format_query_response,
\* _format_forecast_response, _format_supplier_response and
\* _format_inventory_response (lines 222, 242, 262, 287).  The formatters of
\* predict_delivery_risk, get_top_products and compare_regions (lines
\* 313-353) have no such test.
ErrorFormatters ==
    {"query_supply_chain_data", "run_demand_forecast", "analyze_supplier",
     "check_inventory_status"}

\* _format_*_response, lines 221-353: the error text when the formatter tests
\* for an "error" key and the tool result has one, else the formatted table,
\* its cells read with .get and a default; _format_query_response applies the
\* "," format to total_orders and raises when the key is missing.
FormatResponse(tool, json) ==
    IF tool \in ErrorFormatters /\ "error" \in json.keys THEN "error"
    ELSE IF tool = "query_supply_chain_data" /\ "total_orders" \notin json.keys
    THEN "raised"
    ELSE "formatted"

\* Messages a user sends in fallback mode.
UserMessages ==
    {<<"t", "o", "t", "a", "l", " ", "r", "e", "v", "e", "n", "u", "e">>,
     <<"f", "o", "r", "e", "c", "a", "s", "t", " ", "d", "e", "m", "a", "n", "d">>,
     <<"f", "o", "r", "e", "c", "a", "s", "t", " ", "d", "e", "m", "a", "n", "d", " ", "f", "o", "r", " ", "C", "o", "m", "p", "u", "t", "e", "r", "s">>,
     <<"h", "o", "w", " ", "i", "s", " ", "t", "h", "e", " ", "F", "a", "n", " ", "S", "h", "o", "p", " ", "d", "e", "p", "a", "r", "t", "m", "e", "n", "t">>,
     <<"v", "e", "n", "d", "o", "r", " ", "l", "i", "s", "t">>,
     <<"i", "n", "v", "e", "n", "t", "o", "r", "y", " ", "o", "f", " ", "C", "o", "m", "p", "u", "t", "e", "r", "s">>,
     <<"s", "t", "o", "c", "k", " ", "l", "e", "v", "e", "l">>,
     <<"w", "h", "e", "n", " ", "s", "h", "o", "u", "l", "d", " ", "I", " ", "r", "e", "o", "r", "d", "e", "r", " ", "C", "o", "m", "p", "u", "t", "e", "r", "s">>,
     <<"l", "a", "t", "e", " ", "d", "e", "l", "i", "v", "e", "r", "y", " ", "b", "y", " ", "S", "a", "m", "e", " ", "D", "a", "y">>,
     <<"b", "e", "s", "t", " ", "p", "r", "o", "d", "u", "c", "t", "s", " ", "b", "y", " ", "p", "r", "o", "f", "i", "t">>,
     <<"c", "o", "m", "p", "a", "r", "e", " ", "m", "a", "r", "k", "e", "t", "s">>,
     <<"h", "e", "l", "l", "o">>,
     <<"c", "a", "l", "c", "u", "l", "a", "t", "e", " ", "m", "a", "r", "g", "i", "n", "s">>,
     <<"s", "t", "o", "c", "U+212A", " ", "l", "e", "v", "e", "l">>,
     <<"U+0130", "N", "V", "E", "N", "T", "O", "R", "Y">>}

\* Lines 140-193 on each of these messages: msg = user_message.lower() and
\* the call the keywords of msg lead to.
RoutedCalls == [m \in UserMessages |-> FallbackCall(LowerText(m))]

\* _fallback_response, lines 138-193.  cache is the st.cache_resource of
\* DemandForecaster.train, keyed by dataset and category: a forecast whose
\* training is served from it runs on a forecaster without a model.
FallbackResponse(user_message, df, cache) ==
    LET call == RoutedCalls[user_message]
        key == <<df, call.subject>>
        hit == call.tool = "run_demand_forecast" /\ key \in cache
        result == ExecuteTool(call.tool, call.arguments, df, hit)
    IN IF call.tool = "help"
       THEN [message |-> user_message, tool |-> "help", arguments |-> NoArgs,
             response |-> "help", cache |-> cache]
       ELSE [message |-> user_message, tool |-> call.tool, arguments |-> call.arguments,
             response |-> FormatResponse(call.tool, result.json),
             cache |-> IF call.tool = "run_demand_forecast" /\ ~result.implRaised
                       THEN cache \cup {key} ELSE cache]

NoRouted == [message |-> NoName, tool |-> "none", arguments |-> NoArgs, response |-> "none"]

\* chat, lines 72-75, without a client: the keyword router answers.
ChatFallback(user_message) ==
    /\ pc = "idle"
    /\ client = "none"
    /\ chats < MaxChats
    /\ chats' = chats + 1
    /\ LET r == FallbackResponse(user_message, frame, trainCache)
       IN /\ routed' = [message |-> r.message, tool |-> r.tool,
                        arguments |-> r.arguments, response |-> r.response]
          /\ responses' = responses \cup {routed'}
          /\ trainCache' = r.cache
          /\ chatResult' = IF r.response = "raised" THEN "crashed" ELSE "fallback"
    /\ UNCHANGED <<frame, client, conversation_history, messages, pc, iteration, requests,
                   pending, chatSteps, lastExec, lastError>>
    /\ UNCHANGED <<forecasters, fTrained, fResult, deliveryVars, toolVars, scoreVars,
                   inventoryVars, matchVars>>

\* chat, lines 72-84, with a client.
ChatStart ==
    /\ pc = "idle"
    /\ client # "none"
    /\ chats < MaxChats
    /\ chats' = chats + 1
    /\ conversation_history' =
           Append(conversation_history, [role |-> "user", id |-> <<chats + 1, 0>>])
    /\ messages' = <<SystemMessage>> \o LastMessages(conversation_history')
    /\ pc' = "request"
    /\ iteration' = 0
    /\ requests' = 0
    /\ pending' = 0
    /\ chatSteps' = 0
    /\ lastExec' = NoExec
    /\ chatResult' = "running"
    /\ lastError' = NoError
    /\ UNCHANGED <<frame, client, routed, responses, outsideChat>>

\* Lines 87-105: the request fails; the translated guidance is returned.
RequestFails(err) ==
    /\ pc = "request"
    /\ iteration < max_iterations
    /\ requests' = requests + 1
    /\ chatSteps' = chatSteps + 1
    /\ chatResult' = ErrorGuidance(err)
    /\ lastError' = err
    /\ pc' = "idle"
    /\ UNCHANGED <<frame, client, conversation_history, messages, iteration, pending, lastExec,
                   chats, routed, responses, outsideChat>>

\* Lines 127-134: a response without tool calls is the final answer.
FinalAnswer ==
    /\ pc = "request"
    /\ iteration < max_iterations
    /\ requests' = requests + 1
    /\ chatSteps' = chatSteps + 1
    /\ conversation_history' =
           Append(conversation_history, [role |-> "assistant", id |-> <<chats, 0>>])
    /\ chatResult' = "answer"
    /\ pc' = "idle"
    /\ UNCHANGED <<frame, client, messages, iteration, pending, lastExec, chats, routed, responses, lastError, outsideChat>>

\* Lines 110-111: a response with n tool calls; the assistant message is appended.
ToolCallsResponse(n) ==
    /\ pc = "request"
    /\ iteration < max_iterations
    /\ requests' = requests + 1
    /\ chatSteps' = chatSteps + 1
    /\ messages' = Append(messages, [role |-> "assistant", id |-> <<iteration + 1, n>>])
    /\ pending' = n
    /\ pc' = "tools"
    /\ UNCHANGED <<frame, client, conversation_history, iteration, lastExec, chatResult, chats,
                   routed, responses, lastError, outsideChat>>

\* The inner loop left after the first tool call of a response.
AfterToolCallFirstOnly(left) == "request"

\* Line 113, for tool_call in message.tool_calls: the loop goes on while calls
\* of the response are left and falls through to the next request after the
\* last one.
AfterToolCall(left) == IF left = 1 THEN "request" ELSE "tools"

\* Lines 113-126: one tool call of the response: parse its arguments, run
\* execute_tool, append the tool message; after the last call the round ends.
\* A run_demand_forecast call trains through the st.cache_resource cache of
\* train, as in ExecuteToolCall: it finds the keys earlier calls left there
\* and leaves its own when train returns.
RunToolCall(name, payload) ==
    /\ pc = "tools"
    /\ pending > 0
    /\ chatSteps' = chatSteps + 1
    /\ LET parsed == ParseArguments(payload)
           call == [tool |-> name, args |-> parsed.arguments, df |-> frame]
           result == ExecuteTool(name, parsed.arguments, frame,
                                 ReachesTrain(call)
                                     /\ TrainKey(parsed.arguments, frame) \in trainCache)
       IN /\ trainCache' =
                 IF ~parsed.raised /\ ReachesTrain(call)
                    /\ TrainReturns(parsed.arguments, frame)
                 THEN trainCache \cup {TrainKey(parsed.arguments, frame)}
                 ELSE trainCache
          /\ IF parsed.raised \/ result.kind = "raised"
             THEN /\ chatResult' = "crashed"
                  /\ pc' = "idle"
                  /\ lastExec' = [name |-> name, form |-> payload.form,
                                  arguments |-> parsed.arguments, result |-> IdleTResult]
                  /\ UNCHANGED <<messages, pending, iteration>>
             ELSE /\ lastExec' = [name |-> name, form |-> payload.form,
                                  arguments |-> parsed.arguments, result |-> result]
                  /\ messages' = Append(messages,
                          [role |-> "tool", id |-> <<iteration + 1, pending>>])
                  /\ pending' = pending - 1
                  /\ iteration' = IF pending = 1 THEN iteration + 1 ELSE iteration
                  /\ pc' = AfterToolCall(pending)
                  /\ UNCHANGED chatResult
    /\ UNCHANGED <<frame, client, conversation_history, requests, chats, routed, responses,
                   lastError>>
    /\ UNCHANGED <<forecasters, fTrained, fResult, deliveryVars, toolVars, scoreVars,
                   inventoryVars, matchVars>>

\* Line 136: the for loop ran max_iterations rounds.
LoopExhausted ==
    /\ pc = "request"
    /\ iteration >= max_iterations
    /\ chatResult' = "max_iterations"
    /\ pc' = "idle"
    /\ UNCHANGED <<frame, client, conversation_history, messages, iteration, requests, pending,
                   chatSteps, lastExec, chats, routed, responses, lastError, outsideChat>>

\* reset_conversation, lines 68-70.
ResetConversation ==
    /\ pc = "idle"
    /\ conversation_history # <<>>
    /\ conversation_history' = <<>>
    /\ UNCHANGED <<frame, client, messages, pc, iteration, requests, pending, chatSteps,
                   lastExec, chatResult, chats, routed, responses, lastError, outsideChat>>

NextChat ==
    \/ ChatStart
    \/ \E user_message \in UserMessages : ChatFallback(user_message)
    \/ \E err \in ServiceErrors : RequestFails(err)
    \/ FinalAnswer
    \/ \E n \in 1..MaxToolCalls : ToolCallsResponse(n)
    \/ \E name \in ChatToolNames, payload \in Payloads : RunToolCall(name, payload)
    \/ LoopExhausted
    \/ ResetConversation

----------------------------------------------------------------------------
(***************************************************************************)
(* IEEE-754 binary64 arithmetic, as Python floats and numpy float64 do it  *)
(***************************************************************************)
\* A natural number of any size is a sequence of limbs below Base, the least
\* significant first and the last one non-zero; zero is the empty sequence.
LimbBits == 15
Base == 2^LimbBits
MantissaBits == 53
BigNats == Seq(Nat)

Pow2(k) == 2 ^ k
Limb(a, i) == IF i <= Len(a) THEN a[i] ELSE 0

BTrim[a \in BigNats] ==
    IF a = <<>> THEN a
    ELSE IF a[Len(a)] = 0 THEN BTrim[SubSeq(a, 1, Len(a) - 1)] ELSE a

BFromNat[n \in Nat] ==
    IF n = 0 THEN <<>> ELSE <<n % Base>> \o BFromNat[n \div Base]

BAddFrom[a \in BigNats, b \in BigNats, i \in Nat, carry \in Nat] ==
    IF i > Len(a) /\ i > Len(b)
    THEN IF carry = 0 THEN <<>> ELSE <<carry>>
    ELSE <<(Limb(a, i) + Limb(b, i) + carry) % Base>>
             \o BAddFrom[a, b, i + 1, (Limb(a, i) + Limb(b, i) + carry) \div Base]

BAdd[a \in BigNats, b \in BigNats] == BAddFrom[a, b, 1, 0]

BSubFrom[a \in BigNats, b \in BigNats, i \in Nat, borrow \in Nat] ==
    IF i > Len(a) THEN <<>>
    ELSE IF a[i] - Limb(b, i) - borrow < 0
         THEN <<a[i] - Limb(b, i) - borrow + Base>> \o BSubFrom[a, b, i + 1, 1]
         ELSE <<a[i] - Limb(b, i) - borrow>> \o BSubFrom[a, b, i + 1, 0]

\* a - b for a >= b
BSub[a \in BigNats, b \in BigNats] == BTrim[BSubFrom[a, b, 1, 0]]

BCmpFrom[a \in BigNats, b \in BigNats, i \in Nat] ==
    IF i = 0 THEN 0
    ELSE IF a[i] < b[i] THEN -1
    ELSE IF a[i] > b[i] THEN 1
    ELSE BCmpFrom[a, b, i - 1]

\* -1, 0, 1 as a is below, equal to, above b
BCmp[a \in BigNats, b \in BigNats] ==
    IF Len(a) < Len(b) THEN -1
    ELSE IF Len(a) > Len(b) THEN 1
    ELSE BCmpFrom[a, b, Len(a)]

BMulSmallFrom[a \in BigNats, m \in Nat, i \in Nat, carry \in Nat] ==
    IF i > Len(a)
    THEN IF carry = 0 THEN <<>> ELSE <<carry>>
    ELSE <<(a[i] * m + carry) % Base>>
             \o BMulSmallFrom[a, m, i + 1, (a[i] * m + carry) \div Base]

\* a * m for a limb m
BMulSmall[a \in BigNats, m \in Nat] ==
    IF m = 0 THEN <<>> ELSE BMulSmallFrom[a, m, 1, 0]

BMulFrom[a \in BigNats, b \in BigNats, j \in Nat] ==
    IF j > Len(b) THEN <<>>
    ELSE BAdd[BMulSmall[a, b[j]],
              IF j = Len(b) THEN <<>> ELSE <<0>> \o BMulFrom[a, b, j + 1]]

BMul[a \in BigNats, b \in BigNats] == BMulFrom[a, b, 1]

BitsOfLimb[x \in Nat] == IF x = 0 THEN 0 ELSE 1 + BitsOfLimb[x \div 2]

BitLen[a \in BigNats] ==
    IF a = <<>> THEN 0 ELSE LimbBits * (Len(a) - 1) + BitsOfLimb[a[Len(a)]]

\* a * 2^k
BShl[a \in BigNats, k \in Nat] ==
    IF a = <<>> THEN a
    ELSE [i \in 1..(k \div LimbBits) |-> 0] \o BMulSmall[a, Pow2(k % LimbBits)]

\* floor(a / 2^k)
BShr[a \in BigNats, k \in Nat] ==
    BTrim[[i \in 1..(Len(a) - k \div LimbBits) |->
              Limb(a, i + k \div LimbBits) \div Pow2(k % LimbBits)
                  + (Limb(a, i + k \div LimbBits + 1) % Pow2(k % LimbBits))
                        * Pow2(LimbBits - (k % LimbBits))]]

\* a mod 2^k
BLow[a \in BigNats, k \in Nat] ==
    BTrim[[i \in 1..Len(a) |->
              IF i <= k \div LimbBits THEN a[i]
              ELSE IF i = k \div LimbBits + 1 THEN a[i] % Pow2(k % LimbBits)
              ELSE 0]]

BDivSmallFrom[a \in BigNats, m \in Nat, i \in Nat, rem \in Nat] ==
    IF i = 0 THEN <<rem>>
    ELSE BDivSmallFrom[a, m, i - 1, (rem * Base + a[i]) % m]
             \o <<(rem * Base + a[i]) \div m>>

\* quotient and remainder of a by a limb m > 0
BDivSmall[a \in BigNats, m \in Nat] ==
    [q |-> BTrim[Tail(BDivSmallFrom[a, m, Len(a), 0])],
     r |-> BFromNat[Head(BDivSmallFrom[a, m, Len(a), 0])]]

DivStates == [q : BigNats, r : BigNats]

\* One step of binary long division: the remainder is doubled and gains the
\* bit; the quotient gains a bit.
DivStep[d \in DivStates, b \in BigNats, r2 \in BigNats] ==
    IF BCmp[r2, b] >= 0
    THEN [q |-> BAddFrom[d.q, d.q, 1, 1], r |-> BSub[r2, b]]
    ELSE [q |-> BAddFrom[d.q, d.q, 1, 0], r |-> r2]

DivBit[d \in DivStates, b \in BigNats, bit \in Nat] ==
    DivStep[d, b, BAddFrom[d.r, d.r, 1, bit]]

\* the bits of a limb from the top one down to bit k
DivLimbBits[d \in DivStates, b \in BigNats, limb \in Nat, k \in Nat] ==
    IF k = LimbBits THEN d
    ELSE DivBit[DivLimbBits[d, b, limb, k + 1], b, (limb \div Pow2(k)) % 2]

\* quotient and remainder of floor(a / Base^(j-1)) by b
BDivLimbs[a \in BigNats, b \in BigNats, j \in Nat] ==
    IF j > Len(a) THEN [q |-> <<>>, r |-> <<>>]
    ELSE DivLimbBits[BDivLimbs[a, b, j + 1], b, a[j], 0]

\* quotient and remainder of a by b > 0
BDivMod[a \in BigNats, b \in BigNats] ==
    IF Len(b) = 1 THEN BDivSmall[a, b[1]] ELSE BDivLimbs[a, b, 1]

\* A double is s * m * 2^e with m odd, or zero.
Doubles == [s : {-1, 1}, m : BigNats, e : Int]
FZero == [s |-> 1, m |-> <<>>, e |-> 0]

TrailingZeroBits[x \in Nat] == IF x % 2 = 1 THEN 0 ELSE 1 + TrailingZeroBits[x \div 2]

FCanon[s \in {-1, 1}, n \in BigNats, e \in Int] ==
    IF n = <<>> THEN FZero
    ELSE IF n[1] = 0 THEN FCanon[s, Tail(n), e + LimbBits]
    ELSE [s |-> s, m |-> BShr[n, TrailingZeroBits[n[1]]], e |-> e + TrailingZeroBits[n[1]]]

\* q, or q + 1 when what was cut off is above a half (c > 0) or is a half
\* (c = 0) and q is odd
RoundHalfEven[s \in {-1, 1}, q \in BigNats, e \in Int, c \in Int] ==
    FCanon[s, IF c > 0 \/ (c = 0 /\ Limb(q, 1) % 2 = 1) THEN BAdd[q, <<1>>] ELSE q, e]

\* s * n * 2^e with the lowest k bits of n rounded off
RoundOff[s \in {-1, 1}, n \in BigNats, e \in Int, k \in Nat] ==
    RoundHalfEven[s, BShr[n, k], e + k, BCmp[BLow[n, k], BShl[<<1>>, k - 1]]]

\* the double nearest to s * n * 2^e, ties to the even mantissa
FRound[s \in {-1, 1}, n \in BigNats, e \in Int] ==
    IF BitLen[n] <= MantissaBits THEN FCanon[s, n, e]
    ELSE RoundOff[s, n, e, BitLen[n] - MantissaBits]

FFromInt[n \in Int] ==
    IF n < 0 THEN FCanon[-1, BFromNat[-n], 0] ELSE FCanon[1, BFromNat[n], 0]

FOne == FFromInt[1]

FNeg[x \in Doubles] == IF x.m = <<>> THEN x ELSE [x EXCEPT !.s = -x.s]

Smaller(a, b) == IF a < b THEN a ELSE b

\* sx * nx * 2^e + sy * ny * 2^e
AddAligned[sx \in {-1, 1}, nx \in BigNats, sy \in {-1, 1}, ny \in BigNats, e \in Int] ==
    IF sx = sy THEN FRound[sx, BAdd[nx, ny], e]
    ELSE IF BCmp[nx, ny] = 0 THEN FZero
    ELSE IF BCmp[nx, ny] > 0 THEN FRound[sx, BSub[nx, ny], e]
    ELSE FRound[sy, BSub[ny, nx], e]

FAdd[x \in Doubles, y \in Doubles] ==
    IF x.m = <<>> THEN y
    ELSE IF y.m = <<>> THEN x
    ELSE AddAligned[x.s, BShl[x.m, x.e - Smaller(x.e, y.e)],
                    y.s, BShl[y.m, y.e - Smaller(x.e, y.e)], Smaller(x.e, y.e)]

FSub[x \in Doubles, y \in Doubles] == FAdd[x, FNeg[y]]

FMul[x \in Doubles, y \in Doubles] ==
    IF x.m = <<>> \/ y.m = <<>> THEN FZero
    ELSE FRound[x.s * y.s, BMul[x.m, y.m], x.e + y.e]

\* the quotient d.q with a sticky bit for a remainder that is not zero
WithSticky[s \in {-1, 1}, d \in DivStates, e \in Int] ==
    IF d.r = <<>> THEN FRound[s, d.q, e]
    ELSE FRound[s, BAddFrom[d.q, d.q, 1, 1], e - 1]

\* x.m * 2^shift / y.m has 56 bits or more
DivShifted[x \in Doubles, y \in Doubles, shift \in Nat] ==
    WithSticky[x.s * y.s, BDivMod[BShl[x.m, shift], y.m], x.e - y.e - shift]

\* x / y for y # 0
FDiv[x \in Doubles, y \in Doubles] ==
    IF x.m = <<>> THEN FZero
    ELSE IF MantissaBits + 3 + BitLen[y.m] - BitLen[x.m] > 0
    THEN DivShifted[x, y, MantissaBits + 3 + BitLen[y.m] - BitLen[x.m]]
    ELSE DivShifted[x, y, 0]

\* -1, 0, 1 as x is below, equal to, above y
FCmp[x \in Doubles, y \in Doubles] ==
    IF x.m = <<>> /\ y.m = <<>> THEN 0
    ELSE IF x.m = <<>> THEN -y.s
    ELSE IF y.m = <<>> THEN x.s
    ELSE IF x.s # y.s THEN x.s
    ELSE x.s * BCmp[BShl[x.m, x.e - Smaller(x.e, y.e)],
                    BShl[y.m, y.e - Smaller(x.e, y.e)]]

FLt(x, y) == FCmp[x, y] < 0
FLe(x, y) == FCmp[x, y] <= 0
FMax[x \in Doubles, y \in Doubles] == IF FLt(x, y) THEN y ELSE x
FMin[x \in Doubles, y \in Doubles] == IF FLt(y, x) THEN y ELSE x

\* a decimal literal n / d for a power of ten d, as the parser rounds it
FDec(n, d) == FDiv[FFromInt[n], FFromInt[d]]

Bit(a, i) == (Limb(a, i \div LimbBits + 1) \div Pow2(i % LimbBits)) % 2

SqrtStates == [root : BigNats, rem : BigNats]

\* One step of the binary square root: a candidate remainder rem2 = 4 rem +
\* the next two bits, against trial = 4 root + 1.
SqrtTry[st \in SqrtStates, rem2 \in BigNats, trial \in BigNats] ==
    IF BCmp[rem2, trial] >= 0
    THEN [root |-> BAddFrom[st.root, st.root, 1, 1], rem |-> BSub[rem2, trial]]
    ELSE [root |-> BAddFrom[st.root, st.root, 1, 0], rem |-> rem2]

SqrtStep[st \in SqrtStates, pair \in 0..3] ==
    SqrtTry[st, BAdd[BMulSmall[st.rem, 4], BFromNat[pair]],
            BAddFrom[BMulSmall[st.root, 4], <<>>, 1, 1]]

\* floor(sqrt(floor(n / 4^j))) and what is left over
SqrtPairs[n \in BigNats, j \in Nat] ==
    IF 2 * j >= BitLen[n] THEN [root |-> <<>>, rem |-> <<>>]
    ELSE SqrtStep[SqrtPairs[n, j + 1], 2 * Bit(n, 2 * j + 1) + Bit(n, 2 * j)]

\* the root st.root of m * 2^e, with a sticky bit for a remainder
SqrtRounded[st \in SqrtStates, e \in Int] ==
    IF st.rem = <<>> THEN FRound[1, st.root, e \div 2]
    ELSE FRound[1, BAddFrom[st.root, st.root, 1, 1], e \div 2 - 1]

\* m * 2^shift has 110 bits or more and e - shift is even
SqrtShifted[x \in Doubles, shift \in Nat] ==
    SqrtRounded[SqrtPairs[BShl[x.m, shift], 0], x.e - shift]

SqrtShift[len \in Nat] ==
    IF len >= 2 * MantissaBits + 4 THEN 0 ELSE 2 * MantissaBits + 4 - len

\* np.sqrt(x) for x >= 0: the double nearest to the square root
FSqrt[x \in Doubles] ==
    IF x.m = <<>> THEN FZero
    ELSE SqrtShifted[x, SqrtShift[BitLen[x.m]] + ((x.e - SqrtShift[BitLen[x.m]]) % 2)]

BToNat[a \in BigNats] == IF a = <<>> THEN 0 ELSE a[1] + Base * BToNat[Tail(a)]

\* the integer a double of integral value, below 2^31 in size, stands for
IntOf[x \in Doubles] == x.s * BToNat[BShl[x.m, x.e]]

\* round(x) for a double below 2^31 in size: the nearest integer, a tie going
\* to the even one
RoundToInt[x \in Doubles] ==
    IF x.m = <<>> THEN 0
    ELSE IF x.e >= 0 THEN IntOf[x]
    ELSE x.s * IntOf[RoundOff[1, x.m, x.e, -x.e]]

----------------------------------------------------------------------------
(* numpy and pandas reductions over float64 *)

\* The square of an element of an array, as pandas' std() takes it of each
\* deviation: the product x * x rounded to the nearest double.
Sqr[x \in Doubles] == FMul[x, x]

\* x ** 2 of a single float is the C library's pow(x, 2.0), which is within
\* one unit in the last place of the square and not always the nearest
\* double: the result is one of the two doubles that bracket the exact
\* square, and the square itself when that is a double.  Which of the two
\* depends on the library: the way is "below" for the double under the
\* exact square and "above" for the double over it.
PowWays == {"below", "above"}

\* n * 2^e with the lowest k bits of n cut off, downwards or upwards.
SquareCut[n \in BigNats, e \in Int, k \in Nat, way \in PowWays] ==
    IF way = "below" \/ BLow[n, k] = <<>> THEN FCanon[1, BShr[n, k], e + k]
    ELSE FCanon[1, BAdd[BShr[n, k], <<1>>], e + k]

PowSquare[x \in Doubles, way \in PowWays] ==
    IF x.m = <<>> THEN FZero
    ELSE IF BitLen[BMul[x.m, x.m]] <= MantissaBits THEN FCanon[1, BMul[x.m, x.m], 2 * x.e]
    ELSE SquareCut[BMul[x.m, x.m], 2 * x.e, BitLen[BMul[x.m, x.m]] - MantissaBits, way]

\* A column of whole numbers as float64.
Floats[q \in Seq(Int)] == [i \in 1..Len(q) |-> FFromInt[q[i]]]

\* numpy's add.reduce (pairwise summation) over the n values of q that follow
\* position a. Fewer than 8 values are added one by one from the left,
\* starting from 0.
SeqSum[q \in Seq(Doubles), a \in Nat, n \in Nat] ==
    IF n = 0 THEN FZero ELSE FAdd[SeqSum[q, a, n - 1], q[a + n]]

\* From 8 values on there are eight running sums; the j-th takes every
\* eighth value from position a + j on, here over the first k blocks of eight.
LaneSum[q \in Seq(Doubles), a \in Nat, j \in Nat, k \in Nat] ==
    IF k = 1 THEN q[a + j] ELSE FAdd[LaneSum[q, a, j, k - 1], q[a + 8 * (k - 1) + j]]

\* res with the values at positions i..last added one by one.
AddRest[q \in Seq(Doubles), res \in Doubles, i \in Nat, last \in Nat] ==
    IF i > last THEN res ELSE AddRest[q, FAdd[res, q[i]], i + 1, last]

\* 8 to 128 values: the eight running sums are added in pairs, then the
\* values after the last whole block of eight one by one.
BlockSum[q \in Seq(Doubles), a \in Nat, n \in Nat] ==
    AddRest[q,
            FAdd[FAdd[FAdd[LaneSum[q, a, 1, n \div 8], LaneSum[q, a, 2, n \div 8]],
                      FAdd[LaneSum[q, a, 3, n \div 8], LaneSum[q, a, 4, n \div 8]]],
                 FAdd[FAdd[LaneSum[q, a, 5, n \div 8], LaneSum[q, a, 6, n \div 8]],
                      FAdd[LaneSum[q, a, 7, n \div 8], LaneSum[q, a, 8, n \div 8]]]],
            a + 8 * (n \div 8) + 1, a + n]

\* More than 128 values are split at half the count, rounded down to a
\* multiple of 8.
HalfOf(n) == (n \div 2) - ((n \div 2) % 8)
PairwiseSum[q \in Seq(Doubles), a \in Nat, n \in Nat] ==
    IF n < 8 THEN SeqSum[q, a, n]
    ELSE IF n <= 128 THEN BlockSum[q, a, n]
    ELSE FAdd[PairwiseSum[q, a, HalfOf(n)], PairwiseSum[q, a + HalfOf(n), n - HalfOf(n)]]

\* values.sum(dtype=float64), as pandas computes it with numpy alone (the
\* optional bottleneck package, when installed, adds one by one instead).
NpSum[q \in Seq(Doubles)] == PairwiseSum[q, 0, Len(q)]

\* Series.mean(): the sum over the count.
FMeanOf[q \in Seq(Doubles)] == FDiv[NpSum[q], FFromInt[Len(q)]]

\* (avg - values) ** 2
SqrDev[q \in Seq(Doubles), avg \in Doubles] == [i \in 1..Len(q) |-> Sqr[FSub[avg, q[i]]]]

\* Series.std() (ddof = 1) of two or more values, as pandas' nanvar and
\* nanstd compute it with numpy sums: avg = sum / count, the squared
\* differences from avg summed and divided by count - 1, then the square root.
StdOf[q \in Seq(Doubles)] ==
    FSqrt[FDiv[NpSum[SqrDev[q, FMeanOf[q]]], FFromInt[Len(q) - 1]]]

\* round(x, decimals) of a numpy float64 is rint(x * 10 ** decimals) / 10 **
\* decimals; Rounded is the whole number rint(x * 10 ** decimals), a tie going
\* to the even one.
Rounded[x \in Doubles, decimals \in Nat] == RoundToInt[FMul[x, FFromInt[10 ^ decimals]]]

----------------------------------------------------------------------------
(* DeliveryPredictor *)

\* Datasets of the delivery engine: order rows with two of the categorical
\* columns and the late_delivery label.  Categorical values are numbered in
\* their sort order.
CategoricalCols == {"region", "shipping_mode"}
CatValues == 1..4
Missing == 0                   \* the column is absent from order_data
DeliveryDatasets == {1, 2, 3}

DeliveryRows(ds) ==
    IF ds = 1
    THEN {[order_id |-> n, region |-> 1 + (n % 2), shipping_mode |-> 1,
           late_delivery |-> IF n <= 3 THEN 0 ELSE 1] : n \in 1..6}
    ELSE IF ds = 2
    THEN {[order_id |-> n, region |-> 2 + (n % 2), shipping_mode |-> 1 + (n % 3),
           late_delivery |-> n % 2] : n \in 1..6}
    ELSE {[order_id |-> n, region |-> 3 + (n % 2), shipping_mode |-> 2,
           late_delivery |-> n % 2] : n \in 1..3}

ColumnValues == [ds \in DeliveryDatasets |->
    [c \in CategoricalCols |->
        IF c = "region" THEN {r.region : r \in DeliveryRows(ds)}
        ELSE {r.shipping_mode : r \in DeliveryRows(ds)}]]

ClassCount == [ds \in DeliveryDatasets |->
    [y \in {0, 1} |-> Cardinality({r \in DeliveryRows(ds) : r.late_delivery = y})]]

RowCount == [ds \in DeliveryDatasets |-> Cardinality(DeliveryRows(ds))]

\* train_test_split(test_size=0.2, stratify=y) (lines 91-94) raises ValueError
\* when a class has fewer than 2 members or a part is smaller than the number
\* of classes.
SplitRaises(ds) ==
    \/ \E y \in {0, 1} : ClassCount[ds][y] < 2
    \/ TestRows(RowCount[ds]) < 2
    \/ TrainRows(RowCount[ds]) < 2

NoModel == 0
NoEncoders == [cols |-> {}, classes |-> [c \in CategoricalCols |-> {}]]
DeliveryFeatureColumns == {"region_encoded", "shipping_mode_encoded", "unit_price",
                           "quantity", "price_x_quantity"}

\* DeliveryPredictor.__init__
FreshPredictor == [model |-> NoModel, label_encoders |-> NoEncoders,
                   feature_columns |-> {}]

\* LabelEncoder.fit: classes_ are the sorted distinct values, the code of a
\* value is its position (from 0).  Lines 48-50 and 145-149: a value that is
\* not among classes_ gets -1.
EncodeUnseenAsZero(classes, x) ==
    IF x \in classes THEN Cardinality({c \in classes : c < x}) ELSE 0

EncodeValue(classes, x) ==
    IF x \in classes THEN Cardinality({c \in classes : c < x}) ELSE -1

\* _prepare_features, lines 40-51: a column's encoder is fitted only when the
\* instance holds none for that column, otherwise the held one is reused.
FitEncoders(le, ds) ==
    [cols |-> CategoricalCols,
     classes |-> [c \in CategoricalCols |->
                     IF c \in le.cols THEN le.classes[c] ELSE ColumnValues[ds][c]]]

\* Body of DeliveryPredictor.train (lines 89-132).
DeliveryTrainBody(p, ds) ==
    LET p1 == [p EXCEPT !.label_encoders = FitEncoders(p.label_encoders, ds),
                        !.feature_columns = DeliveryFeatureColumns]
    IN IF SplitRaises(ds)
       THEN [inst |-> p1, kind |-> "raised"]
       ELSE [inst |-> [p1 EXCEPT !.model = ds], kind |-> "returned"]

\* @st.cache_resource on train (line 86): keyed by df alone.
CachedDeliveryTrain(p, cache, ds) ==
    IF ds \in cache
    THEN [inst |-> p, cache |-> cache, kind |-> "returned", cached |-> TRUE]
    ELSE LET r == DeliveryTrainBody(p, ds)
         IN [inst |-> r.inst,
             cache |-> IF r.kind = "returned" THEN cache \cup {ds} ELSE cache,
             kind |-> r.kind, cached |-> FALSE]

\* xgboost returns probabilities as float32: the values with a mantissa of
\* Float32Bits bits, 29 bits fewer than a float64.
Float32Bits == MantissaBits - 29
\* the float32 nearest to s * n * 2^e, ties to the even mantissa
Round32[s \in {-1, 1}, n \in BigNats, e \in Int] ==
    IF BitLen[n] <= Float32Bits THEN FCanon[s, n, e]
    ELSE RoundOff[s, n, e, BitLen[n] - Float32Bits]
\* np.float32(x)
Float32[x \in Doubles] == Round32[x.s, x.m, x.e]
\* The float32 values next above and next below a positive float32 that is
\* no power of two.
Ulp32[x \in Doubles] == [s |-> 1, m |-> <<1>>, e |-> x.e + BitLen[x.m] - Float32Bits]
Succ32[x \in Doubles] == FAdd[x, Ulp32[x]]
Pred32[x \in Doubles] == FSub[x, Ulp32[x]]

\* P(late) as the classifier gives it, a float32 in [0, 1]: the float32
\* nearest to 0.40, 0.50, 0.70 and 0.85, and the float32 values next to
\* those at the two cut points.
NominalPercents == {40, 50, 70, 85}
CutPercents == {40, 70}
LateProbabilities ==
    {Float32[FDec(n, 100)] : n \in NominalPercents}
    \cup {Succ32[Float32[FDec(n, 100)]] : n \in CutPercents}
    \cup {Pred32[Float32[FDec(n, 100)]] : n \in CutPercents}

\* XGBClassifier.predict_proba of a binary model, line 164: the row
\* <<1.0 - p, p>>, the difference rounded once to float32.
OneMinus32[p \in Doubles] ==
    IF p.m = <<>> THEN FOne
    ELSE IF FCmp[p, FOne] = 0 THEN FZero
    ELSE Round32[1, BSub[BShl[<<1>>, -p.e], p.m], p.e]
PredictProba[p \in Doubles] == <<OneMinus32[p], p>>

\* XGBClassifier.predict, line 165: class 1 when p > 0.5.
HalfCut == FDec(5, 10)
Predicted[p \in Doubles] == IF FLt(HalfCut, p) THEN 1 ELSE 0

ErrorKeys == {"error"}
PredictionKeys == {"late_delivery_prediction", "late_probability",
                   "on_time_probability", "risk_level"}
NoCodes == [c \in CategoricalCols |-> 0]
NoValue == [keys |-> {}, error |-> "", late_delivery_prediction |-> 0,
            late_probability |-> FZero, on_time_probability |-> FZero, risk_level |-> "",
            encoded |-> NoCodes]

\* prob[1] > 0.7 compares a numpy float32 with a Python float. NumPy 2
\* ("weak" promotion of the Python float) rounds the literal to float32 and
\* compares in float32; NumPy 1 ("legacy") compares the two as float64.
Promotions == {"weak", "legacy"}
HighCut == FDec(7, 10)
MediumCut == FDec(4, 10)
CutAs[cut \in Doubles, promotion \in Promotions] ==
    IF promotion = "weak" THEN Float32[cut] ELSE cut

\* predict_single, lines 171-174.
RiskLevel(late, promotion) ==
    IF FLt(CutAs[HighCut, promotion], late) THEN "High"
    ELSE IF FLt(CutAs[MediumCut, promotion], late) THEN "Medium"
    ELSE "Low"

\* Lines 164-175: what predict_single returns of the classifier's answer.
\* float(prob[k]) is the float32 value as a float64.
Prediction(late, promotion) ==
    [late_delivery_prediction |-> Predicted[late],
     late_probability |-> PredictProba[late][2],
     on_time_probability |-> PredictProba[late][1],
     risk_level |-> RiskLevel(late, promotion)]
Predictions == {Prediction(late, promotion) : late \in LateProbabilities,
                                              promotion \in Promotions}

\* predict_single (lines 134-175); prediction is what lines 164-175 make of
\* the classifier's answer.
PredictSingle(p, order, prediction) ==
    IF p.model = NoModel
    THEN [kind |-> "returned",
          value |-> [NoValue EXCEPT !.keys = ErrorKeys, !.error = "Model not trained"]]
    ELSE LET le == p.label_encoders
             encoded == [c \in CategoricalCols |->
                            IF c \in le.cols /\ order[c] # Missing
                            THEN EncodeValue(le.classes[c], order[c])
                            ELSE 0]
         IN [kind |-> "returned",
             value |-> [NoValue EXCEPT !.keys = PredictionKeys,
                            !.late_delivery_prediction = prediction.late_delivery_prediction,
                            !.late_probability = prediction.late_probability,
                            !.on_time_probability = prediction.on_time_probability,
                            !.risk_level = prediction.risk_level,
                            !.encoded = encoded]]

PredictorIds == {1, 2}
OrderData == [CategoricalCols -> {Missing} \cup CatValues]
NoOrder == [c \in CategoricalCols |-> Missing]
IdleDResult == [op |-> "none", inst |-> 0, ds |-> 0, order |-> NoOrder,
                kind |-> "none", cached |-> FALSE, value |-> NoValue]


\* A page constructs a new DeliveryPredictor().
NewPredictor(i) ==
    /\ predictors' = [predictors EXCEPT ![i] = FreshPredictor]
    /\ dResult' = [IdleDResult EXCEPT !.op = "new", !.inst = i]
    /\ UNCHANGED <<dpCache, outsideDelivery>>

DeliveryTrain(i, ds) ==
    LET t == CachedDeliveryTrain(predictors[i], dpCache, ds)
    IN /\ predictors' = [predictors EXCEPT ![i] = t.inst]
       /\ dpCache' = t.cache
       /\ dResult' = [IdleDResult EXCEPT !.op = "train", !.inst = i, !.ds = ds,
                          !.kind = t.kind, !.cached = t.cached]
       /\ UNCHANGED outsideDelivery

Predict(i, order) ==
    \E prediction \in Predictions :
        LET r == PredictSingle(predictors[i], order, prediction)
        IN /\ dResult' = [IdleDResult EXCEPT !.op = "predict_single", !.inst = i,
                              !.order = order, !.kind = r.kind, !.value = r.value]
           /\ UNCHANGED <<predictors, dpCache, outsideDelivery>>

NextDelivery ==
    \/ \E i \in PredictorIds : NewPredictor(i)
    \/ \E i \in PredictorIds, ds \in DeliveryDatasets : DeliveryTrain(i, ds)
    \/ \E i \in PredictorIds, order \in OrderData : Predict(i, order)

----------------------------------------------------------------------------
(* SupplierScorer.score_suppliers *)

MaxOrders == 3                 \* most orders of a dataset


\* Orders: department, product category, late_delivery, and a quality that
\* fixes the other columns score_suppliers reads.
Departments == {1, 2}
OrderSpace ==
    [department : Departments, product_category : Categories,
     late_delivery : {0, 1}, quality : {"bad", "good"}]
Column(o, col) ==
    CASE col = "quantity" -> IF o.quality = "bad" THEN 1 ELSE 3
      [] col = "profit_margin" -> IF o.quality = "bad" THEN 0 ELSE 1
      [] col = "discount_percent" -> IF o.quality = "bad" THEN 1 ELSE 0
      [] col = "delivery_delay_days" -> IF o.quality = "bad" THEN 3 ELSE -1
      [] col = "scheduled_shipping_days" -> IF o.quality = "bad" THEN 1 ELSE 2
      [] col = "late_delivery" -> o.late_delivery

\* The datasets: up to MaxOrders orders. The aggregates of score_suppliers do
\* not depend on the order of the rows, so each collection of orders is listed
\* once, its rows in rank order.
OrderRank(o) ==
    8 * o.department + 4 * o.product_category + 2 * o.late_delivery
        + (IF o.quality = "bad" THEN 0 ELSE 1)
ScoreDatasets ==
    {df \in UNION {[1..n -> OrderSpace] : n \in 1..MaxOrders} :
        \A i \in 1..(Len(df) - 1) : OrderRank(df[i]) <= OrderRank(df[i + 1])}

RECURSIVE SumRange(_, _, _)
SumRange(q, a, b) ==
    IF a > b THEN 0
    ELSE IF a = b THEN q[a]
    ELSE SumRange(q, a, (a + b) \div 2) + SumRange(q, (a + b) \div 2 + 1, b)
SumSeq(q) == SumRange(q, 1, Len(q))

\* df.groupby("department").agg(...), lines 31-44: the means are the column
\* sum divided by the row count, as doubles.
GroupKeys(df) == {df[i].department : i \in 1..Len(df)}
GroupRows(df, d) == SelectSeq(df, LAMBDA o : o.department = d)
ColumnSum(rows, col) == SumSeq([i \in 1..Len(rows) |-> Column(rows[i], col)])
ColumnMean(rows, col) == FDiv[FFromInt[ColumnSum(rows, col)], FFromInt[Len(rows)]]
Aggregate(df, d) ==
    [department         |-> d,
     avg_profit_margin  |-> ColumnMean(GroupRows(df, d), "profit_margin"),
     avg_scheduled_days |-> ColumnMean(GroupRows(df, d), "scheduled_shipping_days"),
     late_delivery_rate |-> ColumnMean(GroupRows(df, d), "late_delivery"),
     avg_delay          |-> ColumnMean(GroupRows(df, d), "delivery_delay_days"),
     total_quantity     |-> FFromInt[ColumnSum(GroupRows(df, d), "quantity")],
     num_categories     |->
         FFromInt[Cardinality({o.product_category : o \in
                                   {df[i] : i \in {j \in 1..Len(df) : df[j].department = d}}})],
     avg_discount       |-> ColumnMean(GroupRows(df, d), "discount_percent")]
\* The groups in key order, as the rows of agg after reset_index().
SortedKeys(df) ==
    CHOOSE q \in [1..Cardinality(GroupKeys(df)) -> GroupKeys(df)] :
        \A i, j \in DOMAIN q : i < j => q[i] < q[j]
Agg(df) == [i \in 1..Cardinality(GroupKeys(df)) |-> Aggregate(df, SortedKeys(df)[i])]

AggRecords ==
    [department : Departments, avg_profit_margin : Doubles, avg_scheduled_days : Doubles,
     late_delivery_rate : Doubles, avg_delay : Doubles, total_quantity : Doubles,
     num_categories : Doubles, avg_discount : Doubles]
AggTables == Seq(AggRecords)

FMaxOf[S \in SUBSET Doubles] == CHOOSE m \in S : \A y \in S : FLe(y, m)
FMinOf[S \in SUBSET Doubles] == CHOOSE m \in S : \A y \in S : FLe(m, y)

\* np.finfo(float64).eps, and the range below which MinMaxScaler takes a
\* column for constant.
Eps == [s |-> 1, m |-> <<1>>, e |-> -52]
TenEps == FMul[FFromInt[10], Eps]

\* MinMaxScaler.fit: scale_ = (1 - 0) / (data_max - data_min), the range of
\* a constant column replaced by 1.
Scale[range \in Doubles] == FDiv[FOne, IF FLt(range, TenEps) THEN FOne ELSE range]

\* MinMaxScaler.transform with min_ = 0 - data_min * scale_: x * scale_ + min_,
\* each step rounded, the result not clipped.
Transform[x \in Doubles, data_min \in Doubles, scale \in Doubles] ==
    FAdd[FMul[x, scale], FSub[FZero, FMul[data_min, scale]]]

\* MinMaxScaler().fit_transform of one column, at the value x.
MinMaxScale[x \in Doubles, column \in SUBSET Doubles] ==
    Transform[x, FMinOf[column], Scale[FSub[FMaxOf[column], FMinOf[column]]]]

\* Series.std() > 0, lines 56 and 75, of a column of agg: the sample deviation
\* of a single value is NaN, which is not above 0.
StdPositive[column \in Seq(Doubles)] == Len(column) >= 2 /\ FLt(FZero, StdOf[column])

\* The metrics in the order of the WEIGHTS dict, lines 17-24.
WeightOrder == <<"delivery_performance", "profitability", "volume_capability",
                 "order_reliability", "cost_efficiency", "product_diversity">>
WEIGHTS ==
    [delivery_performance |-> FDec(30, 100), profitability     |-> FDec(20, 100),
     volume_capability    |-> FDec(15, 100), order_reliability |-> FDec(15, 100),
     cost_efficiency      |-> FDec(10, 100), product_diversity |-> FDec(10, 100)]
Dimensions == DOMAIN WEIGHTS
ScoreRecords == [Dimensions -> Doubles]
NeutralScore == FDec(5, 10)

\* Lines 68-72: 1 - avg_delay.clip(lower=0) / avg_scheduled_days.clip(lower=1),
\* clipped to [0, 1].
OrderReliability[avg_delay \in Doubles, avg_scheduled_days \in Doubles] ==
    FMin[FMax[FSub[FOne, FDiv[FMax[avg_delay, FZero], FMax[avg_scheduled_days, FOne]]],
              FZero],
         FOne]

\* Line 92: sum(scored[metric] * weight for metric, weight in WEIGHTS.items()),
\* the products added from the left in dict order, starting from 0; the sum
\* of the first k of them.
WeightedSum[scores \in ScoreRecords, k \in Nat] ==
    IF k = 0 THEN FZero
    ELSE FAdd[WeightedSum[scores, k - 1],
              FMul[scores[WeightOrder[k]], WEIGHTS[WeightOrder[k]]]]

\* pd.cut(x, bins=[0, 0.3, 0.5, 0.65, 0.8, 1.0], labels=...): the bins are
\* open on the left and closed on the right; a value in no bin gets NaN.
CutBins == <<FZero, FDec(3, 10), FDec(5, 10), FDec(65, 100), FDec(8, 10), FOne>>
RiskLabels == <<"Critical", "High", "Medium", "Low", "Very Low">>
GradeLabels == <<"F", "D", "C", "B", "A">>
Cut[x \in Doubles, labels \in Seq(STRING)] ==
    IF \E i \in 1..Len(labels) : FLt(CutBins[i], x) /\ FLe(x, CutBins[i + 1])
    THEN labels[CHOOSE i \in 1..Len(labels) : FLt(CutBins[i], x) /\ FLe(x, CutBins[i + 1])]
    ELSE "NaN"

\* Lines 46-89: the six scores of row i of agg.
Scores[agg \in AggTables, i \in Nat] ==
    [delivery_performance |-> FSub[FOne, agg[i].late_delivery_rate],
     profitability |->
         IF StdPositive[[k \in 1..Len(agg) |-> agg[k].avg_profit_margin]]
         THEN MinMaxScale[agg[i].avg_profit_margin,
                          {agg[k].avg_profit_margin : k \in DOMAIN agg}]
         ELSE NeutralScore,
     volume_capability |->
         MinMaxScale[agg[i].total_quantity, {agg[k].total_quantity : k \in DOMAIN agg}],
     order_reliability |->
         OrderReliability[agg[i].avg_delay, agg[i].avg_scheduled_days],
     cost_efficiency |->
         IF StdPositive[[k \in 1..Len(agg) |-> agg[k].avg_discount]]
         THEN FSub[FOne, MinMaxScale[agg[i].avg_discount,
                                     {agg[k].avg_discount : k \in DOMAIN agg}]]
         ELSE NeutralScore,
     product_diversity |->
         MinMaxScale[agg[i].num_categories, {agg[k].num_categories : k \in DOMAIN agg}]]

\* Lines 94-104: the row with its overall score and the two labels cut from it.
WithLabels[a \in AggRecords, scores \in ScoreRecords, overall \in Doubles] ==
    [supplier |-> a.department, scores |-> scores, overall_score |-> overall,
     avg_delay |-> a.avg_delay, avg_scheduled_days |-> a.avg_scheduled_days,
     late_delivery_rate |-> a.late_delivery_rate,
     avg_profit_margin |-> a.avg_profit_margin, avg_discount |-> a.avg_discount,
     num_categories |-> a.num_categories,
     risk_level |-> Cut[overall, RiskLabels], grade |-> Cut[overall, GradeLabels]]

WithOverall[a \in AggRecords, scores \in ScoreRecords] ==
    WithLabels[a, scores, WeightedSum[scores, Len(WeightOrder)]]

\* Lines 46-104: the scored row i.
ScoreRow[agg \in AggTables, i \in Nat] == WithOverall[agg[i], Scores[agg, i]]

RowRecords ==
    [supplier : Departments, scores : ScoreRecords, overall_score : Doubles,
     avg_delay : Doubles, avg_scheduled_days : Doubles,
     late_delivery_rate : Doubles, avg_profit_margin : Doubles,
     avg_discount : Doubles, num_categories : Doubles,
     risk_level : STRING, grade : STRING]

\* sort_values("overall_score", ascending=False), line 106: best first, equal
\* scores keep their order.
SortRows[rows \in Seq(RowRecords)] ==
    [i \in 1..Len(rows) |->
        rows[(CHOOSE q \in [1..Len(rows) -> 1..Len(rows)] :
                  /\ \A j, k \in DOMAIN q : j # k => q[j] # q[k]
                  /\ \A j, k \in DOMAIN q : j < k =>
                         \/ FLt(rows[q[k]].overall_score, rows[q[j]].overall_score)
                         \/ /\ rows[q[k]].overall_score = rows[q[j]].overall_score
                            /\ q[j] < q[k])[i]]]

ScoredRows[agg \in AggTables] == SortRows[[i \in 1..Len(agg) |-> ScoreRow[agg, i]]]

\* score_suppliers, lines 26-106: one row per department, sorted by
\* overall_score.
ScoreSuppliersRows(df) == ScoredRows[Agg(df)]

ScoreSuppliers ==
    /\ scoreRows = <<>>
    /\ scoreInput # <<>>
    /\ scoreRows' = ScoreSuppliersRows(scoreInput)
    /\ UNCHANGED <<scoreInput, suggestions, outsideScore>>

WeakThreshold == FDec(5, 10)   \* row[metric] < 0.5, line 125

\* Lines 123-126: the positions in WeightOrder of the metrics scoring below 0.5.
WeakAreas(row) ==
    {i \in 1..Len(WeightOrder) : FLt(row.scores[WeightOrder[i]], WeakThreshold)}

\* The weak area picked by weight (heaviest first) instead of by score.
TopWeakByWeight(row) ==
    WeightOrder[CHOOSE i \in WeakAreas(row) : \A j \in WeakAreas(row) : i <= j]

\* Lines 129-130: weak_areas.sort(key=score) is stable, so among equal
\* scores the metric listed first in WEIGHTS stays first; weak_areas[0].
TopWeak(row) ==
    WeightOrder[CHOOSE i \in WeakAreas(row) :
                    \A j \in WeakAreas(row) :
                        \/ FLt(row.scores[WeightOrder[i]], row.scores[WeightOrder[j]])
                        \/ /\ row.scores[WeightOrder[i]] = row.scores[WeightOrder[j]]
                           /\ i <= j]

\* The value of x rounded to d decimals, a tie going to the even digit, as a
\* whole number of units of 10 ** -d: what round(x, d) of a Python float and
\* the format .{d}f make of x (the rows of iterrows() hold Python floats).
DecimalRound[x \in Doubles, d \in Nat] ==
    IF x.m = <<>> THEN 0
    ELSE IF x.e >= 0 THEN IntOf[x] * 10 ^ d
    ELSE x.s * IntOf[RoundOff[1, BMulSmall[x.m, 10 ^ d], x.e, -x.e]]

\* f"{x:.1f}": the sign and the tenths.
Fixed1[x \in Doubles] ==
    [negative |-> x.s = -1,
     tenths |-> IF DecimalRound[x, 1] < 0 THEN -DecimalRound[x, 1] ELSE DecimalRound[x, 1]]
Percent[x \in Doubles] == FMul[x, FFromInt[100]]

\* Lines 131-138: the text for the weakest metric, as the sentence chosen
\* and the number printed in it.
Action(row, metric) ==
    CASE metric = "delivery_performance" ->
             [kind |-> "late_rate", number |-> Fixed1[Percent[row.late_delivery_rate]]]
      [] metric = "profitability" ->
             [kind |-> "profit_margin", number |-> Fixed1[Percent[row.avg_profit_margin]]]
      [] metric = "volume_capability" ->
             [kind |-> "low_volume", number |-> Fixed1[FZero]]
      [] metric = "order_reliability" ->
             [kind |-> "average_delay", number |-> Fixed1[row.avg_delay]]
      [] metric = "cost_efficiency" ->
             [kind |-> "discount_rate", number |-> Fixed1[Percent[row.avg_discount]]]
      [] metric = "product_diversity" ->
             [kind |-> "categories",
              number |-> [negative |-> FALSE, tenths |-> 10 * IntOf[row.num_categories]]]

\* Line 144: top_weak[0].replace("_", " ").title()
AreaTitle ==
    [delivery_performance |-> "Delivery Performance", profitability |-> "Profitability",
     volume_capability |-> "Volume Capability", order_reliability |-> "Order Reliability",
     cost_efficiency |-> "Cost Efficiency", product_diversity |-> "Product Diversity"]

\* Line 142: round(row["overall_score"], 3), the double nearest to the
\* rounded decimal.
RoundedScore[overall_score \in Doubles] == FDec(DecimalRound[overall_score, 3], 1000)

\* Lines 140-147: the suggestion of a row with a weak area.
Suggestion(row) ==
    [supplier |-> row.supplier, score |-> RoundedScore[row.overall_score],
     grade |-> row.grade, risk_level |-> row.risk_level,
     weakest_area |-> AreaTitle[TopWeak(row)],
     suggestion |-> Action(row, TopWeak(row))]

\* get_improvement_suggestions, lines 119-149: one suggestion for each row
\* with a weak area, in the order of the rows.
GetImprovementSuggestions(scored_df) ==
    LET weak == SelectSeq(scored_df, LAMBDA row : WeakAreas(row) # {})
    IN [i \in 1..Len(weak) |-> Suggestion(weak[i])]

NoCall == [called |-> FALSE, list |-> <<>>]

GetImprovementSuggestionsCall ==
    /\ scoreRows # <<>>
    /\ ~suggestions.called
    /\ suggestions' = [called |-> TRUE, list |-> GetImprovementSuggestions(scoreRows)]
    /\ UNCHANGED <<scoreInput, scoreRows, outsideScore>>

NextScore == ScoreSuppliers \/ GetImprovementSuggestionsCall

----------------------------------------------------------------------------
(* InventoryOptimizer: calculate_eoq and calculate_safety_stock *)

\* calculate_eoq with the factor 2 of line 25 left out.
CalculateEoqNoFactor(annual_demand, ordering_cost, unit_price, holding_cost_rate) ==
    IF FLe(FMul[unit_price, holding_cost_rate], FZero) \/ FLe(annual_demand, FZero)
    THEN 0
    ELSE RoundToInt[FSqrt[FDiv[FMul[annual_demand, ordering_cost],
                               FMul[unit_price, holding_cost_rate]]]]

\* calculate_eoq, lines 16-26, in doubles: holding_cost = unit_price *
\* holding_cost_rate; 0 when it or the demand is not positive, else
\* round(np.sqrt((2 * annual_demand * ordering_cost) / holding_cost), 0).
CalculateEoq(annual_demand, ordering_cost, unit_price, holding_cost_rate) ==
    IF FLe(FMul[unit_price, holding_cost_rate], FZero) \/ FLe(annual_demand, FZero)
    THEN 0
    ELSE RoundToInt[FSqrt[FDiv[FMul[FMul[FFromInt[2], annual_demand], ordering_cost],
                               FMul[unit_price, holding_cost_rate]]]]

\* stats.norm.ppf(service_level) for the service levels used, in percent.
\* The last digits of the quantile depend on the scipy build.  The Cephes
\* ndtri gives -1.6448536269514729, -0.5244005127080409, 0.0,
\* 1.2815515655446004, 1.6448536269514722 and 2.3263478740408408; a build
\* that rounds the quantile to the nearest double gives
\* -1.6448536269514726, -0.5244005127080408, 0.0, 1.2815515655446008,
\* 1.6448536269514715 and 2.3263478740408408.
ServiceLevels == {5, 30, 50, 90, 95, 99}
ScipyBuilds == {"cephes", "nearest"}
NormPpf[service_level \in ServiceLevels, scipy \in ScipyBuilds] ==
    CASE service_level = 5 /\ scipy = "cephes" -> [s |-> -1, m |-> <<13663, 2407, 8868, 105>>, e |-> -51]
      [] service_level = 5 /\ scipy = "nearest" -> [s |-> -1, m |-> <<27325, 4814, 17736, 210>>, e |-> -52]
      [] service_level = 30 /\ scipy = "cephes" -> [s |-> -1, m |-> <<12671, 19137, 18403, 33>>, e |-> -51]
      [] service_level = 30 /\ scipy = "nearest" -> [s |-> -1, m |-> <<17915, 11013, 8078, 134>>, e |-> -53]
      [] service_level = 50 -> FZero
      [] service_level = 90 /\ scipy = "cephes" -> [s |-> 1, m |-> <<13977, 14050, 632, 82>>, e |-> -51]
      [] service_level = 90 /\ scipy = "nearest" -> [s |-> 1, m |-> <<6989, 7025, 316, 41>>, e |-> -50]
      [] service_level = 95 /\ scipy = "cephes" -> [s |-> 1, m |-> <<27323, 4814, 17736, 210>>, e |-> -52]
      [] service_level = 95 /\ scipy = "nearest" -> [s |-> 1, m |-> <<27991, 601, 10409, 26>>, e |-> -49]
      [] service_level = 99 -> [s |-> 1, m |-> <<32647, 17968, 14520, 74>>, e |-> -50]

\* Lines 42-46: the three rounded values; round(z_score, 2) in hundredths.
RoundedStock[z_score \in Doubles, safety_stock \in Doubles, reorder_point \in Doubles] ==
    [safety_stock  |-> RoundToInt[safety_stock],
     reorder_point |-> RoundToInt[reorder_point],
     z_score       |-> RoundToInt[FMul[z_score, FFromInt[100]]]]

\* Line 40: reorder_point = avg_demand * avg_lead_time + safety_stock.
WithReorderPoint[avg_demand \in Doubles, avg_lead_time \in Doubles, z_score \in Doubles, safety_stock \in Doubles] ==
    RoundedStock[z_score, safety_stock, FAdd[FMul[avg_demand, avg_lead_time], safety_stock]]

\* The three squares of line 38, each with its outcome of pow; pow gives
\* equal arguments the same square.
PowArgs == {"demand_std", "avg_demand", "lead_time_std"}
PowChoices == [PowArgs -> PowWays]
PowConsistent[avg_demand \in Doubles, demand_std \in Doubles, lead_time_std \in Doubles, pow \in PowChoices] ==
    /\ demand_std = avg_demand => pow["demand_std"] = pow["avg_demand"]
    /\ demand_std = lead_time_std => pow["demand_std"] = pow["lead_time_std"]
    /\ avg_demand = lead_time_std => pow["avg_demand"] = pow["lead_time_std"]

\* Lines 37-38: avg_lead_time * demand_std ** 2 + avg_demand ** 2 *
\* lead_time_std ** 2, under the square root.
Radicand[avg_demand \in Doubles, demand_std \in Doubles, avg_lead_time \in Doubles, lead_time_std \in Doubles, pow \in PowChoices] ==
    FAdd[FMul[avg_lead_time, PowSquare[demand_std, pow["demand_std"]]],
         FMul[PowSquare[avg_demand, pow["avg_demand"]],
              PowSquare[lead_time_std, pow["lead_time_std"]]]]

\* The values np.sqrt can give on line 37, over the outcomes of pow.
Roots[avg_demand \in Doubles, demand_std \in Doubles, avg_lead_time \in Doubles, lead_time_std \in Doubles] ==
    {FSqrt[radicand] :
        radicand \in {Radicand[avg_demand, demand_std, avg_lead_time, lead_time_std, pow] :
                         pow \in {choice \in PowChoices :
                                     PowConsistent[avg_demand, demand_std,
                                                   lead_time_std, choice]}}}

\* A build is the scipy that gives the quantile and the outcomes of pow.
Builds == [scipy : ScipyBuilds, pow : PowChoices]

\* calculate_safety_stock, lines 28-46, in doubles, on one build.
CalculateSafetyStock[avg_demand \in Doubles, demand_std \in Doubles, avg_lead_time \in Doubles, lead_time_std \in Doubles, service_level \in ServiceLevels, build \in Builds] ==
    WithReorderPoint[avg_demand, avg_lead_time, NormPpf[service_level, build.scipy],
                     FMul[NormPpf[service_level, build.scipy],
                          FSqrt[Radicand[avg_demand, demand_std, avg_lead_time,
                                         lead_time_std, build.pow]]]]

\* Lines 85-93: the safety stock at 95% and at 99% of one category, on one
\* scipy: the two calls have the same arguments, so the same square root.
StockPairs[avg_demand \in Doubles, demand_std \in Doubles, avg_lead_time \in Doubles, lead_time_std \in Doubles, scipy \in ScipyBuilds] ==
    {<<WithReorderPoint[avg_demand, avg_lead_time, NormPpf[95, scipy],
                        FMul[NormPpf[95, scipy], root]],
       WithReorderPoint[avg_demand, avg_lead_time, NormPpf[99, scipy],
                        FMul[NormPpf[99, scipy], root]]>> :
        root \in Roots[avg_demand, demand_std, avg_lead_time, lead_time_std]}

\* The calls of the two formulas: whole-number arguments, the holding cost
\* rate in hundredths.
EoqCalls ==
    [op : {"calculate_eoq"}, annual_demand : {-5, 0, 8, 100, 10000},
     ordering_cost : {0, 50}, unit_price : {-1, 0, 25, 100},
     holding_cost_rate : {-10, 0, 20}]
SafetyStockCalls ==
    [op : {"calculate_safety_stock"}, avg_demand : {0, 3, 10}, demand_std : {0, 2},
     avg_lead_time : {0, 5}, lead_time_std : {0, 1}, service_level : ServiceLevels]

IdleInvCall == [op |-> "none"]
IdleInvResult == [op |-> "none"]

CalculateEoqCall ==
    /\ invCall.op = "calculate_eoq"
    /\ invResult.op = "none"
    /\ invResult' =
           [op |-> "calculate_eoq",
            eoq |-> CalculateEoq(FFromInt[invCall.annual_demand],
                                 FFromInt[invCall.ordering_cost],
                                 FFromInt[invCall.unit_price],
                                 FDec(invCall.holding_cost_rate, 100))]
    /\ UNCHANGED <<invCall, outsideInventory>>

CalculateSafetyStockCall ==
    /\ invCall.op = "calculate_safety_stock"
    /\ invResult.op = "none"
    /\ \E build \in Builds :
           /\ PowConsistent[FFromInt[invCall.avg_demand], FFromInt[invCall.demand_std],
                            FFromInt[invCall.lead_time_std], build.pow]
           /\ invResult' =
                  [op |-> "calculate_safety_stock",
                   value |-> CalculateSafetyStock[
                                 FFromInt[invCall.avg_demand], FFromInt[invCall.demand_std],
                                 FFromInt[invCall.avg_lead_time],
                                 FFromInt[invCall.lead_time_std],
                                 invCall.service_level, build]]
    /\ UNCHANGED <<invCall, outsideInventory>>

----------------------------------------------------------------------------
(* InventoryOptimizer: analyze_inventory and get_recommendations *)

MinOrders == 10                \* inventory_optimizer.py line 56
DaysPerYear == 365             \* lines 70-72, 158
DefaultOrderingCost == 50      \* calculate_eoq default, line 18
DefaultHoldingRate == 20       \* calculate_eoq default, line 19, in hundredths

\* The product categories of a dataset, in the order of sorted().
InvCategories == <<"Cleats", "Fishing">>

\* The orders of one category: the number of orders on each of its days (each
\* of quantity 1, the scheduled shipping days taken in turn from
\* ScheduledDays), how many of them were late, and their unit price, which is
\* also the revenue of the order. No orders at all: the category is absent.
\* The pattern of 80 orders is taken with 23 late orders and the price 100
\* only, and 23 late orders with that pattern only.
DailyPatterns ==
    {<<>>, <<3, 3, 3>>, <<10>>, <<5, 5>>, <<3, 4, 5>>, <<1, 6, 11>>,
     <<3, 3, 3, 2, 2, 2, 2, 2, 2, 2>>, <<40, 40>>}
LateCounts == {0, 6, 7, 18, 23}
UnitPrices == {0, 100}
ScheduledDays == <<4, 2, 4, 1, 0>>
Profiles ==
    {pr \in [daily : DailyPatterns, late : LateCounts, unit_price : UnitPrices] :
        /\ pr.daily = <<>> => (pr.late = 0 /\ pr.unit_price = 100)
        /\ pr.daily = <<40, 40>> <=> pr.late = 23
        /\ pr.daily = <<40, 40>> => pr.unit_price = 100}
InvDatasets == [1..Len(InvCategories) -> Profiles]

Min(a, b) == IF a < b THEN a ELSE b

\* The rows of the dataset built from the profiles.
ProfileOrders(name, pr) ==
    LET n == SumSeq(pr.daily)
        before(d) == SumSeq(SubSeq(pr.daily, 1, d - 1))
    IN [i \in 1..n |->
           [product_category |-> name,
            order_date |-> CHOOSE d \in 1..Len(pr.daily) :
                               before(d) < i /\ i <= before(d) + pr.daily[d],
            quantity |-> 1,
            late_delivery |-> IF i <= Min(pr.late, n) THEN 1 ELSE 0,
            unit_price |-> pr.unit_price,
            revenue |-> pr.unit_price,
            scheduled_shipping_days |-> ScheduledDays[((i - 1) % Len(ScheduledDays)) + 1]]]
RECURSIVE InvOrders(_, _)
InvOrders(df, k) ==
    IF k = 0 THEN <<>>
    ELSE InvOrders(df, k - 1) \o ProfileOrders(InvCategories[k], df[k])

StockRecords == [safety_stock : Int, reorder_point : Int, z_score : Int]

\* Lines 95-123: the reported row. Rounded values are whole numbers of the
\* last decimal kept: tenths for round(x, 1), hundredths for round(x, 2).
ReportRow[category \in STRING, total_orders \in Nat, revenue \in Doubles, avg_daily_demand \in Doubles, std_daily_demand \in Doubles, annual_demand \in Doubles, avg_price \in Doubles, avg_lead_time \in Doubles, eoq \in Int, ss_95 \in StockRecords, ss_99 \in StockRecords, late_rate \in Doubles, avg_order_qty \in Doubles] ==
    [category |-> category,
     total_orders |-> total_orders,
     total_revenue |-> Rounded[revenue, 2],
     avg_daily_demand |-> Rounded[avg_daily_demand, 1],
     demand_std |-> Rounded[std_daily_demand, 1],
     demand_cv |->
         IF FLt(FZero, avg_daily_demand)
         THEN Rounded[FMul[FDiv[std_daily_demand, avg_daily_demand], FFromInt[100]], 1]
         ELSE 0,
     annual_demand |-> Rounded[annual_demand, 0],
     avg_unit_price |-> Rounded[avg_price, 2],
     avg_lead_time |-> Rounded[avg_lead_time, 1],
     eoq |-> eoq,
     safety_stock_95 |-> ss_95.safety_stock,
     reorder_point_95 |-> ss_95.reorder_point,
     safety_stock_99 |-> ss_99.safety_stock,
     reorder_point_99 |-> ss_99.reorder_point,
     late_delivery_rate |-> Rounded[late_rate, 1],
     overstock_risk |->
         IF FLt(FMul[FFromInt[eoq], FDec(15, 10)], avg_order_qty) /\ eoq > 0 THEN "High"
         ELSE IF FLt(FFromInt[eoq], avg_order_qty) /\ eoq > 0 THEN "Medium"
         ELSE "Low"]

\* Lines 81-93: the EOQ with the default ordering cost and holding rate, and
\* the safety stock at 95% and 99%: the rows the category can have on one
\* scipy, over the outcomes of pow.
RowWithStock[category \in STRING, total_orders \in Nat, revenue \in Doubles, avg_daily_demand \in Doubles, std_daily_demand \in Doubles, annual_demand \in Doubles, avg_price \in Doubles, avg_lead_time \in Doubles, lead_time_std \in Doubles, late_rate \in Doubles, avg_order_qty \in Doubles, scipy \in ScipyBuilds] ==
    {ReportRow[category, total_orders, revenue, avg_daily_demand, std_daily_demand,
               annual_demand, avg_price, avg_lead_time,
               CalculateEoq(annual_demand, FFromInt[DefaultOrderingCost], avg_price,
                            FDec(DefaultHoldingRate, 100)),
               stock[1], stock[2], late_rate, avg_order_qty] :
        stock \in StockPairs[avg_daily_demand, std_daily_demand, avg_lead_time,
                             lead_time_std, scipy]}

\* Lines 64-79, 96 and 101: the statistics of one category from its columns:
\* the demand of each day in date order, and the columns of its orders.
RowFromColumns[category \in STRING, daily_demand \in Seq(Doubles), lead_times \in Seq(Doubles), prices \in Seq(Doubles), revenues \in Seq(Doubles), late \in Seq(Doubles), quantities \in Seq(Doubles), scipy \in ScipyBuilds] ==
    RowWithStock[category, Len(lead_times), NpSum[revenues],
                 FMeanOf[daily_demand],
                 IF Len(daily_demand) > 1 THEN StdOf[daily_demand] ELSE FZero,
                 FMul[FMeanOf[daily_demand], FFromInt[DaysPerYear]],
                 FMeanOf[prices],
                 FMeanOf[lead_times],
                 IF Len(lead_times) > 1 THEN StdOf[lead_times] ELSE FOne,
                 FMul[FMeanOf[late], FFromInt[100]],
                 FMeanOf[quantities], scipy]

\* Lines 59-123: the rows one category can have, from its orders, on one
\* scipy and over the outcomes of pow.
AnalyzeCategory(category, cat_data, scipy) ==
    LET dates == {cat_data[i].order_date : i \in 1..Len(cat_data)}
        first == CHOOSE d \in dates : \A e \in dates : d <= e
        last == CHOOSE d \in dates : \A e \in dates : e <= d
        days == SelectSeq([j \in 1..(last - first + 1) |-> first + j - 1],
                          LAMBDA d : d \in dates)
        daily_demand ==
            [j \in 1..Len(days) |->
                SumSeq([i \in 1..Len(cat_data) |->
                           IF cat_data[i].order_date = days[j]
                           THEN cat_data[i].quantity ELSE 0])]
    IN RowFromColumns[
           category, Floats[daily_demand],
           Floats[[i \in 1..Len(cat_data) |-> cat_data[i].scheduled_shipping_days]],
           Floats[[i \in 1..Len(cat_data) |-> cat_data[i].unit_price]],
           Floats[[i \in 1..Len(cat_data) |-> cat_data[i].revenue]],
           Floats[[i \in 1..Len(cat_data) |-> cat_data[i].late_delivery]],
           Floats[[i \in 1..Len(cat_data) |-> cat_data[i].quantity]], scipy]

\* Lines 54-123: the tables of the first k of the categories, each with one
\* of its rows.
RECURSIVE AnalysisOf(_, _, _, _)
AnalysisOf(rows, categories, k, scipy) ==
    IF k = 0 THEN {<<>>}
    ELSE {Append(analysis, row) :
             analysis \in AnalysisOf(rows, categories, k - 1, scipy),
             row \in AnalyzeCategory(categories[k],
                                     SelectSeq(rows, LAMBDA o : o.product_category = categories[k]),
                                     scipy)}

\* analyze_inventory without the order-count test of lines 56-57.
AnalyzeInventoryNoThreshold(rows, scipy) ==
    LET present == SelectSeq(InvCategories,
                             LAMBDA c : \E i \in 1..Len(rows) : rows[i].product_category = c)
    IN AnalysisOf(rows, present, Len(present), scipy)

\* analyze_inventory, lines 48-125: the categories in sorted order, those
\* with fewer than 10 orders skipped; the tables it can return on one scipy.
AnalyzeInventory(rows, scipy) ==
    LET reported ==
            SelectSeq(InvCategories,
                      LAMBDA c : Len(SelectSeq(rows, LAMBDA o : o.product_category = c))
                                     >= MinOrders)
    IN AnalysisOf(rows, reported, Len(reported), scipy)

\* Lines 156-162: order_cycle_days = 365 / (annual_demand / eoq), two rounded
\* divisions, printed with the format .0f.
OrderCycleDays[eoq \in Int, annual_demand \in Int] ==
    RoundToInt[FDiv[FFromInt[DaysPerYear], FDiv[FFromInt[annual_demand], FFromInt[eoq]]]]

\* Lines 154-166.
EoqRecommendation(row) ==
    IF row.eoq > 0 /\ row.avg_daily_demand > 0
    THEN IF row.annual_demand > 0
         THEN <<[category |-> row.category, priority |-> "Medium",
                 action |-> [kind |-> "order_eoq", units |-> row.eoq,
                             days |-> OrderCycleDays[row.eoq, row.annual_demand]]]>>
         ELSE <<>>
    ELSE <<>>
VariabilityRecommendation(row) ==
    IF row.demand_cv > 800
    THEN <<[category |-> row.category, priority |-> "High",
            action |-> [kind |-> "increase_safety_stock",
                        units |-> row.safety_stock_99, days |-> 0]]>>
    ELSE <<>>
LateDeliveryRecommendation(row) ==
    [category |-> row.category, priority |-> "High",
     action |-> [kind |-> "increase_reorder_point",
                 units |-> row.reorder_point_99, days |-> 0]]
\* The stable-demand rule without its late-delivery condition.
StableRecommendationCvOnly(row) ==
    IF row.demand_cv < 300
    THEN <<[category |-> row.category, priority |-> "Low",
            action |-> [kind |-> "reduce_safety_stock",
                        units |-> row.safety_stock_95, days |-> 0]]>>
    ELSE <<>>
StableRecommendation(row) ==
    IF row.demand_cv < 300 /\ row.late_delivery_rate < 400
    THEN <<[category |-> row.category, priority |-> "Low",
            action |-> [kind |-> "reduce_safety_stock",
                        units |-> row.safety_stock_95, days |-> 0]]>>
    ELSE <<>>

\* The rules of one row with the EOQ rule as an elif of the late-delivery rule.
RowRecommendationsElif(row) ==
    VariabilityRecommendation(row)
    \o (IF row.late_delivery_rate > 600
        THEN <<LateDeliveryRecommendation(row)>>
        ELSE EoqRecommendation(row))
    \o StableRecommendation(row)

\* The rules of one row with the late-delivery test as >= 60.
RowRecommendationsLateAtSixty(row) ==
    VariabilityRecommendation(row)
    \o (IF row.late_delivery_rate >= 600 THEN <<LateDeliveryRecommendation(row)>> ELSE <<>>)
    \o EoqRecommendation(row)
    \o StableRecommendation(row)

\* Lines 131-177: the recommendations of one row, rule by rule; rates and
\* the coefficient of variation are in tenths of a percent.
RowRecommendations(row) ==
    VariabilityRecommendation(row)
    \o (IF row.late_delivery_rate > 600 THEN <<LateDeliveryRecommendation(row)>> ELSE <<>>)
    \o EoqRecommendation(row)
    \o StableRecommendation(row)

\* get_recommendations, lines 127-179.
RECURSIVE GetRecommendations(_)
GetRecommendations(analysis) ==
    IF analysis = <<>> THEN <<>>
    ELSE RowRecommendations(Head(analysis)) \o GetRecommendations(Tail(analysis))

AnalysisCalls == [op : {"analyze_inventory"}, df : InvDatasets]

AnalyzeInventoryCall ==
    /\ invCall.op = "analyze_inventory"
    /\ invResult.op = "none"
    /\ \E scipy \in ScipyBuilds :
           \E analysis \in AnalyzeInventory(InvOrders(invCall.df, Len(InvCategories)), scipy) :
               invResult' = [op |-> "analyze_inventory", analysis |-> analysis]
    /\ UNCHANGED <<invCall, outsideInventory>>

GetRecommendationsCall ==
    /\ invResult.op = "analyze_inventory"
    /\ invResult' = [op |-> "get_recommendations",
                     analysis |-> invResult.analysis,
                     recommendations |-> GetRecommendations(invResult.analysis)]
    /\ UNCHANGED <<invCall, outsideInventory>>

NextInventory ==
    \/ CalculateEoqCall
    \/ CalculateSafetyStockCall
    \/ AnalyzeInventoryCall
    \/ GetRecommendationsCall

----------------------------------------------------------------------------
(* Name matching of analyze_supplier and check_inventory_status *)

MaxNames == 2                  \* most rows of a result table

\* Department names as score_suppliers ranks them (any order), and category
\* names as analyze_inventory lists them (sorted).
SupplierNames == <<<<"F", "a", "n", " ", "S", "h", "o", "p">>,
                 <<"G", "o", "l", "f">>,
                 <<"P", "e", "t", " ", "S", "h", "o", "p">>>>
CategoryNames == <<<<"G", "o", "l", "f", " ", "A", "p", "p", "a", "r", "e", "l">>,
                 <<"G", "o", "l", "f", " ", "B", "a", "g", "s", " ", "&", " ", "C", "a", "r", "t", "s">>,
                 <<"M", "e", "n", "'", "s", " ", "C", "l", "o", "t", "h", "i", "n", "g">>>>

\* The texts asked for.
NameQueries ==
    {<<"s", "h", "o", "p">>,
     <<"G", "O", "L", "F">>,
     <<"F", "a", "n", " ", "S", "h", "o", "p">>,
     <<"t", "e", "n", "n", "i", "s">>,
     <<"m", "e", "n", "'", "s">>,
     <<"m", "e", "n", ".", "s">>,
     <<"g", ".", "l", "f">>,
     <<"(">>,
     <<")">>,
     <<"*">>,
     <<"(", "g", "o", "l", "f", ")">>,
     <<"g", "o", "l", "f", "$">>,
     <<"^", "p", "e", "t">>,
     <<"G", "o", "l", "f", "|", "P", "e", "t">>,
     <<"x", "?">>,
     <<"s", "*", "h", "o", "p">>,
     <<"g", "o", "{", "1", "}", "l", "f">>,
     <<"[", "a", "-", "z", "]", "+">>,
     <<"[", "a", "-", "z">>,
     <<"s", "h", "o", "U+0307", "p">>,
     <<"U+212A">>,
     <<>>}

\* Sequences of at most MaxNames different names of the list; kept in the
\* order of the list when ordered.
Position(names, x) == CHOOSE i \in 1..Len(names) : names[i] = x
NameTables(names, ordered) ==
    {t \in UNION {[1..n -> {names[i] : i \in 1..Len(names)}] : n \in 0..MaxNames} :
        \A i, j \in 1..Len(t) :
            i < j => /\ t[i] # t[j]
                     /\ ordered => Position(names, t[i]) < Position(names, t[j])}

\* re.compile(pat, re.IGNORECASE) and Pattern.search, as
\* Series.str.contains(pat, case=False) calls them: the patterns of literal
\* characters, ".", "^", "$", "|", groups, character sets, the repeats "*",
\* "+", "?" and braces with their lazy forms, the escapes of characters
\* that are no letters or digits, \d, \D, \w, \W, \s, \S, \b, \A and \Z,
\* and the groups "(?:", "(?=" and "(?!".  The other extensions of "(?", the
\* other escapes of letters and digits, and a "+" after a repeat (a
\* possessive repeat from Python 3.11 on, re.error before) are outside this
\* model: RegexStatus says so, and no query of NameQueries has one.  A text
\* has no newline.

\* The characters of ASCII from the space to "~" in the order of their code
\* points, 32 to 126, and the characters outside ASCII with their code points.
AsciiChars ==
    <<" ", "!", "\"", "#", "$", "%", "&", "'", "(", ")", "*", "+", ",", "-", ".", "/",
      "0", "1", "2", "3", "4", "5", "6", "7", "8", "9", ":", ";", "<", "=", ">", "?",
      "@", "A", "B", "C", "D", "E", "F", "G", "H", "I", "J", "K", "L", "M", "N", "O",
      "P", "Q", "R", "S", "T", "U", "V", "W", "X", "Y", "Z", "[", "\\", "]", "^", "_",
      "U+0060", "a", "b", "c", "d", "e", "f", "g", "h", "i", "j", "k", "l", "m", "n", "o",
      "p", "q", "r", "s", "t", "u", "v", "w", "x", "y", "z", "{", "|", "}", "~">>
OtherChars ==
    <<<<"U+00C9", 201>>, <<"U+00D6", 214>>, <<"U+00E9", 233>>, <<"U+00F6", 246>>,
      <<"U+0130", 304>>, <<"U+0131", 305>>, <<"U+017F", 383>>, <<"U+0307", 775>>,
      <<"U+03A3", 931>>, <<"U+03C2", 962>>, <<"U+03C3", 963>>, <<"U+212A", 8490>>>>
Chars ==
    {AsciiChars[i] : i \in 1..Len(AsciiChars)} \cup {OtherChars[i][1] : i \in 1..Len(OtherChars)}
Code(c) ==
    IF \E i \in 1..Len(AsciiChars) : AsciiChars[i] = c
    THEN 31 + (CHOOSE i \in 1..Len(AsciiChars) : AsciiChars[i] = c)
    ELSE OtherChars[CHOOSE i \in 1..Len(OtherChars) : OtherChars[i][1] = c][2]

IsAsciiLetter(c) == \E i \in 1..Len(UpperCase) : UpperCase[i] = c \/ LowerCase[i] = c
IsDigit(c) == c \in {"0", "1", "2", "3", "4", "5", "6", "7", "8", "9"}
DigitValue(c) == Code(c) - Code("0")

\* The character a character stands for when re ignores case: its lower case
\* as one character, and one character for the small letters that re holds
\* equal (i and the dotless i, s and the long s, the two small sigmas).
CaseFold(c) ==
    IF \E i \in 1..Len(UpperCase) : UpperCase[i] = c
    THEN LowerCase[CHOOSE i \in 1..Len(UpperCase) : UpperCase[i] = c]
    ELSE CASE c = "U+00C9" -> "U+00E9"
           [] c = "U+00D6" -> "U+00F6"
           [] c \in {"U+0130", "U+0131"} -> "i"
           [] c = "U+017F" -> "s"
           [] c \in {"U+03A3", "U+03C2"} -> "U+03C3"
           [] c = "U+212A" -> "k"
           [] OTHER -> c

\* \w, \d and \s and their complements.
IsWord(c) ==
    \/ IsAsciiLetter(c) \/ IsDigit(c) \/ c = "_"
    \/ c \in {"U+00C9", "U+00D6", "U+00E9", "U+00F6", "U+0130", "U+0131", "U+017F",
              "U+03A3", "U+03C2", "U+03C3", "U+212A"}
InCategory(e, c) ==
    CASE e = "d" -> IsDigit(c)
      [] e = "D" -> ~IsDigit(c)
      [] e = "w" -> IsWord(c)
      [] e = "W" -> ~IsWord(c)
      [] e = "s" -> c = " "
      [] e = "S" -> c # " "

\* What a backslash and the character e are, outside a character set and
\* inside one: a class of characters, a position, the character itself, a bad
\* escape (re.error), or an escape outside this model (the control
\* characters, the numbered escapes and group references, \B).
EscapeKind(e, in_set) ==
    IF e \in {"d", "D", "w", "W", "s", "S"} THEN "category"
    ELSE IF e \in {"b", "A", "Z"} /\ ~in_set THEN "at"
    ELSE IF e \in {"a", "b", "f", "n", "r", "t", "v", "x", "u", "U", "N", "B"} \/ IsDigit(e)
    THEN "unmodelled"
    ELSE IF IsAsciiLetter(e) THEN "error"
    ELSE "literal"

Patterns == Seq(STRING)

\* The length of the item of a character set at j: two for an escape.
ItemLen(p, j) == IF p[j] = "\\" THEN 2 ELSE 1
ItemChar(p, j) == IF p[j] = "\\" THEN p[j + 1] ELSE p[j]

\* The index of the "]" that closes the character set whose next item is at
\* j, or 0 when the set is unterminated; a "]" that is the first item is a
\* member, and so is a "-" before the closing "]".
ClassScan[p \in Patterns, j \in Nat, first \in BOOLEAN] ==
    IF j > Len(p) THEN 0
    ELSE IF p[j] = "]" /\ ~first THEN j
    ELSE IF j + ItemLen(p, j) <= Len(p) /\ p[j + ItemLen(p, j)] = "-"
    THEN IF j + ItemLen(p, j) + 1 > Len(p) THEN 0
         ELSE IF p[j + ItemLen(p, j) + 1] = "]" THEN j + ItemLen(p, j) + 1
         ELSE ClassScan[p, j + ItemLen(p, j) + 1 + ItemLen(p, j + ItemLen(p, j) + 1), FALSE]
    ELSE ClassScan[p, j + ItemLen(p, j), FALSE]
ClassStart(p, k) == IF k + 1 <= Len(p) /\ p[k + 1] = "^" THEN k + 2 ELSE k + 1
ClassEnd(p, k) == ClassScan[p, ClassStart(p, k), TRUE]

\* The items of a character set from j to its end at close: "ok", "error"
\* for a bad escape or a bad range, "unmodelled".
ItemStatus(p, j) ==
    IF p[j] # "\\" THEN "literal"
    ELSE IF j = Len(p) THEN "error"
    ELSE EscapeKind(p[j + 1], TRUE)
ClassItems[p \in Patterns, j \in Nat, close \in Nat] ==
    IF j >= close THEN "ok"
    ELSE IF ItemStatus(p, j) \in {"error", "unmodelled"} THEN ItemStatus(p, j)
    ELSE IF j + ItemLen(p, j) + 1 < close /\ p[j + ItemLen(p, j)] = "-"
    THEN IF ItemStatus(p, j + ItemLen(p, j) + 1) \in {"error", "unmodelled"}
         THEN ItemStatus(p, j + ItemLen(p, j) + 1)
         ELSE IF ItemStatus(p, j) = "category"
                 \/ ItemStatus(p, j + ItemLen(p, j) + 1) = "category"
                 \/ Code(ItemChar(p, j + ItemLen(p, j) + 1)) < Code(ItemChar(p, j))
         THEN "error"
         ELSE ClassItems[p, j + ItemLen(p, j) + 1 + ItemLen(p, j + ItemLen(p, j) + 1), close]
    ELSE ClassItems[p, j + ItemLen(p, j), close]
ClassStatus(p, k) ==
    IF ClassEnd(p, k) = 0 THEN "error" ELSE ClassItems[p, ClassStart(p, k), ClassEnd(p, k)]

\* Whether the character c is a member of the items from j to close, case
\* ignored: a range has c when one of its characters is c but for case.
InRange(lo, hi, c) ==
    \E x \in Chars : Code(lo) <= Code(x) /\ Code(x) <= Code(hi) /\ CaseFold(x) = CaseFold(c)
InItem(p, j, c) ==
    IF p[j] = "\\" /\ EscapeKind(p[j + 1], TRUE) = "category" THEN InCategory(p[j + 1], c)
    ELSE CaseFold(ItemChar(p, j)) = CaseFold(c)
InItems[p \in Patterns, j \in Nat, close \in Nat, c \in STRING] ==
    IF j >= close THEN FALSE
    ELSE IF j + ItemLen(p, j) + 1 < close /\ p[j + ItemLen(p, j)] = "-"
    THEN \/ InRange(ItemChar(p, j), ItemChar(p, j + ItemLen(p, j) + 1), c)
         \/ InItems[p, j + ItemLen(p, j) + 1 + ItemLen(p, j + ItemLen(p, j) + 1), close, c]
    ELSE InItem(p, j, c) \/ InItems[p, j + ItemLen(p, j), close, c]
InClass(p, k, c) ==
    InItems[p, ClassStart(p, k), ClassEnd(p, k), c] # (ClassStart(p, k) = k + 2)

\* {m}, {m,n}, {m,} and {,n} at j: the index of the "}", or 0 when the "{" is
\* an ordinary character.  A repeat with no upper limit has the maximum -1.
DigitsEnd[p \in Patterns, j \in Nat] ==
    IF j <= Len(p) /\ IsDigit(p[j]) THEN DigitsEnd[p, j + 1] ELSE j
CloseBrace(p, j) == IF j <= Len(p) /\ p[j] = "}" THEN j ELSE 0
BraceEnd(p, j) ==
    IF j + 1 <= Len(p) /\ p[j + 1] = "}" THEN 0
    ELSE IF DigitsEnd[p, j + 1] <= Len(p) /\ p[DigitsEnd[p, j + 1]] = ","
    THEN CloseBrace(p, DigitsEnd[p, DigitsEnd[p, j + 1] + 1])
    ELSE CloseBrace(p, DigitsEnd[p, j + 1])
Number[p \in Patterns, i \in Nat, j \in Nat] ==
    IF j < i THEN 0 ELSE Number[p, i, j - 1] * 10 + DigitValue(p[j])
BraceMin(p, j) == Number[p, j + 1, DigitsEnd[p, j + 1] - 1]
BraceMax(p, j) ==
    IF p[DigitsEnd[p, j + 1]] # "," THEN BraceMin(p, j)
    ELSE IF p[DigitsEnd[p, j + 1] + 1] = "}" THEN -1
    ELSE Number[p, DigitsEnd[p, j + 1] + 1, BraceEnd(p, j) - 1]
\* A count of more than 9 digits is outside this model.
BraceStatus(p, j) ==
    IF \/ DigitsEnd[p, j + 1] - (j + 1) > 9
       \/ BraceEnd(p, j) - DigitsEnd[p, j + 1] - 1 > 9
    THEN "unmodelled"
    ELSE IF BraceMax(p, j) # -1 /\ BraceMax(p, j) < BraceMin(p, j) THEN "error"
    ELSE "ok"

\* A repeat at q: "*", "+", "?" or braces, with "?" after it for the lazy
\* repeat, which finds a match where the greedy one does.
IsRepeat(p, q) ==
    /\ q <= Len(p)
    /\ p[q] \in {"*", "+", "?"} \/ (p[q] = "{" /\ BraceEnd(p, q) # 0)
RepeatLast(p, q) == IF p[q] = "{" THEN BraceEnd(p, q) ELSE q
RepeatEnd(p, q) ==
    IF RepeatLast(p, q) + 1 <= Len(p) /\ p[RepeatLast(p, q) + 1] = "?"
    THEN RepeatLast(p, q) + 1 ELSE RepeatLast(p, q)
RepeatMin(p, q) == IF p[q] = "+" THEN 1 ELSE IF p[q] = "{" THEN BraceMin(p, q) ELSE 0
RepeatMax(p, q) == IF p[q] = "?" THEN 1 ELSE IF p[q] = "{" THEN BraceMax(p, q) ELSE -1

\* The groups "(", "(?:", "(?=" and "(?!": where the body starts.
GroupBody(p, k) == IF k + 1 <= Len(p) /\ p[k + 1] = "?" THEN k + 3 ELSE k + 1
GroupStatus(p, k) ==
    IF k + 1 <= Len(p) /\ p[k + 1] = "?"
    THEN IF k + 2 <= Len(p) /\ p[k + 2] \in {":", "=", "!"} THEN "ok" ELSE "unmodelled"
    ELSE "ok"

\* re.compile on the pattern from j on, inside depth groups, after prev: the
\* start of a branch, a position ("^", "$", \b), an item that can be
\* repeated, a repeat, or a lazy repeat.  "ok", "error" for re.error
\* (nothing to repeat, multiple repeat, min repeat greater than max repeat,
\* unterminated character set, bad character range, bad escape, missing or
\* unbalanced parenthesis), or "unmodelled".
Compile[p \in Patterns, j \in Nat, depth \in Nat, prev \in {"start", "at", "item", "repeat", "lazy"}] ==
    IF j > Len(p) THEN IF depth = 0 THEN "ok" ELSE "error"
    ELSE IF p[j] = "\\"
    THEN IF j = Len(p) THEN "error"
         ELSE IF EscapeKind(p[j + 1], FALSE) \in {"error", "unmodelled"}
         THEN EscapeKind(p[j + 1], FALSE)
         ELSE Compile[p, j + 2, depth, IF EscapeKind(p[j + 1], FALSE) = "at" THEN "at" ELSE "item"]
    ELSE IF p[j] = "["
    THEN IF ClassStatus(p, j) # "ok" THEN ClassStatus(p, j)
         ELSE Compile[p, ClassEnd(p, j) + 1, depth, "item"]
    ELSE IF p[j] = "("
    THEN IF GroupStatus(p, j) # "ok" THEN "unmodelled"
         ELSE Compile[p, GroupBody(p, j), depth + 1, "start"]
    ELSE IF p[j] = ")"
    THEN IF depth = 0 THEN "error" ELSE Compile[p, j + 1, depth - 1, "item"]
    ELSE IF p[j] = "|" THEN Compile[p, j + 1, depth, "start"]
    ELSE IF p[j] \in {"^", "$"} THEN Compile[p, j + 1, depth, "at"]
    ELSE IF IsRepeat(p, j)
    THEN IF prev \in {"start", "at", "lazy"} THEN "error"
         ELSE IF prev = "repeat"
         THEN IF p[j] = "?" THEN Compile[p, j + 1, depth, "lazy"]
              ELSE IF p[j] = "+" THEN "unmodelled"
              ELSE "error"
         ELSE IF p[j] = "{" /\ BraceStatus(p, j) # "ok" THEN BraceStatus(p, j)
         ELSE Compile[p, RepeatLast(p, j) + 1, depth, "repeat"]
    ELSE Compile[p, j + 1, depth, "item"]

RegexStatus(pat) ==
    IF \E j \in 1..Len(pat) : pat[j] \notin Chars THEN "unmodelled"
    ELSE Compile[pat, 1, 0, "start"]
RegexValid(pat) == RegexStatus(pat) = "ok"

\* The index of the ")" that closes the group open at depth, from j on.
CloseOf[p \in Patterns, j \in Nat, depth \in Nat] ==
    IF j > Len(p) THEN 0
    ELSE IF p[j] = "\\" THEN CloseOf[p, j + 2, depth]
    ELSE IF p[j] = "[" THEN CloseOf[p, ClassEnd(p, j) + 1, depth]
    ELSE IF p[j] = "(" THEN CloseOf[p, j + 1, depth + 1]
    ELSE IF p[j] = ")" THEN IF depth = 1 THEN j ELSE CloseOf[p, j + 1, depth - 1]
    ELSE CloseOf[p, j + 1, depth]

\* The last index of the item that starts at j.
ItemEnd(p, j) ==
    IF p[j] = "\\" THEN j + 1
    ELSE IF p[j] = "[" THEN ClassEnd(p, j)
    ELSE IF p[j] = "(" THEN CloseOf[p, j + 1, 1]
    ELSE j

\* The index of the first "|" of the branch list from j to hi, or 0.
NextBar[p \in Patterns, j \in Nat, hi \in Nat] ==
    IF j > hi THEN 0
    ELSE IF p[j] = "|" THEN j
    ELSE NextBar[p, ItemEnd(p, j) + 1, hi]

\* Whether position i of the text is a word boundary.
WordBoundary(t, i) ==
    (i > 1 /\ IsWord(t[i - 1])) # (i <= Len(t) /\ IsWord(t[i]))

\* Whether the item at j, one that takes a character, takes c.
TakesChar(p, j, c) ==
    IF p[j] = "." THEN TRUE
    ELSE IF p[j] = "[" THEN InClass(p, j, c)
    ELSE IF p[j] = "\\"
    THEN IF EscapeKind(p[j + 1], FALSE) = "category" THEN InCategory(p[j + 1], c)
         ELSE CaseFold(p[j + 1]) = CaseFold(c)
    ELSE CaseFold(p[j]) = CaseFold(c)

Texts == Seq(STRING)
Positions == SUBSET Nat

\* The positions of the text after the pattern from lo to hi, a list of
\* branches, matched from one of the positions of from.
RECURSIVE Branches(_, _, _, _, _)

\* The item from lo to its end matched once.
Once[p \in Patterns, lo \in Nat, end \in Nat, t \in Texts, from \in Positions] ==
    IF p[lo] = "("
    THEN IF GroupBody(p, lo) = lo + 1 \/ p[lo + 2] = ":"
         THEN Branches(p, GroupBody(p, lo), end - 1, t, from)
         ELSE {i \in from : (Branches(p, GroupBody(p, lo), end - 1, t, {i}) # {})
                                = (p[lo + 2] = "=")}
    ELSE IF p[lo] = "^" \/ (p[lo] = "\\" /\ p[lo + 1] = "A") THEN from \cap {1}
    ELSE IF p[lo] = "$" \/ (p[lo] = "\\" /\ p[lo + 1] = "Z") THEN from \cap {Len(t) + 1}
    ELSE IF p[lo] = "\\" /\ p[lo + 1] = "b" THEN {i \in from : WordBoundary(t, i)}
    ELSE {i + 1 : i \in {k \in from : k <= Len(t) /\ TakesChar(p, lo, t[k])}}

\* The item matched up to left more times (-1: any number of times):
\* seen are the positions had before, frontier the new ones.
Optional[p \in Patterns, lo \in Nat, end \in Nat, t \in Texts, frontier \in Positions, seen \in Positions, left \in Int] ==
    IF frontier = {} \/ left = 0 THEN seen \cup frontier
    ELSE Optional[p, lo, end, t, Once[p, lo, end, t, frontier] \ (seen \cup frontier),
                  seen \cup frontier, IF left = -1 THEN -1 ELSE left - 1]

\* The item matched min times and then up to max times in all.  After
\* Len(t) + 2 times one more time gives the same positions.
Repeat[p \in Patterns, lo \in Nat, end \in Nat, t \in Texts, from \in Positions, min \in Nat, max \in Int] ==
    IF from = {} THEN {}
    ELSE IF min > Len(t) + 2
    THEN Repeat[p, lo, end, t, from, Len(t) + 2,
                IF max = -1 THEN -1 ELSE max - min + Len(t) + 2]
    ELSE IF min > 0
    THEN Repeat[p, lo, end, t, Once[p, lo, end, t, from], min - 1,
                IF max = -1 THEN -1 ELSE max - 1]
    ELSE Optional[p, lo, end, t, from, {}, max]

Match[p \in Patterns, lo \in Nat, hi \in Nat, t \in Texts, from \in Positions] ==
    IF from = {} THEN {}
    ELSE IF lo > hi THEN from
    ELSE IF NextBar[p, lo, hi] # 0
    THEN Match[p, lo, NextBar[p, lo, hi] - 1, t, from]
             \cup Match[p, NextBar[p, lo, hi] + 1, hi, t, from]
    ELSE IF IsRepeat(p, ItemEnd(p, lo) + 1)
    THEN Match[p, RepeatEnd(p, ItemEnd(p, lo) + 1) + 1, hi, t,
               Repeat[p, lo, ItemEnd(p, lo), t, from,
                      RepeatMin(p, ItemEnd(p, lo) + 1), RepeatMax(p, ItemEnd(p, lo) + 1)]]
    ELSE Match[p, ItemEnd(p, lo) + 1, hi, t, Once[p, lo, ItemEnd(p, lo), t, from]]

Branches(p, lo, hi, t, from) == Match[p, lo, hi, t, from]

\* Pattern.search: the pattern matches from some position of the text.
MatchesAt(pat, t, i) == Match[pat, 1, Len(pat), t, {i}] # {}
RegexSearch(pat, t) == \E i \in 1..(Len(t) + 1) : MatchesAt(pat, t, i)

\* table[column].str.contains(pat, case=False): the rows whose name the
\* pattern is found in.
StrContains(table, pat) == {i \in 1..Len(table) : RegexSearch(pat, table[i])}
FirstOf(rows) == CHOOSE i \in rows : \A j \in rows : i <= j

IdleMCall == [tool |-> "none", table |-> <<>>, query |-> <<>>]
IdleMResult == [kind |-> "none", match |-> {}, name |-> <<>>]

\* _analyze_supplier, lines 308-316: match, the not-found payload, iloc[0].
AnalyzeSupplierNamed(scores, supplier_name) ==
    IF ~RegexValid(supplier_name)
    THEN [kind |-> "raised", match |-> {}, name |-> <<>>]
    ELSE LET match == StrContains(scores, supplier_name)
         IN IF match = {}
            THEN [kind |-> "not_found", match |-> {}, name |-> <<>>]
            ELSE [kind |-> "reported", match |-> match, name |-> scores[FirstOf(match)]]

\* _check_inventory, lines 346-351: no filter for an empty category; an empty
\* analysis has no category column (KeyError).
CheckInventoryNamed(results, category) ==
    IF category = <<>>
    THEN [kind |-> "summary", match |-> {}, name |-> <<>>]
    ELSE IF Len(results) = 0 \/ ~RegexValid(category)
    THEN [kind |-> "raised", match |-> {}, name |-> <<>>]
    ELSE LET match == StrContains(results, category)
         IN IF match = {}
            THEN [kind |-> "not_found", match |-> {}, name |-> <<>>]
            ELSE [kind |-> "reported", match |-> match, name |-> results[FirstOf(match)]]

MatchCalls ==
    {[tool |-> "analyze_supplier", table |-> t, query |-> q] :
        t \in NameTables(SupplierNames, FALSE) \ {<<>>}, q \in NameQueries}
    \cup {[tool |-> "check_inventory_status", table |-> t, query |-> q] :
        t \in NameTables(CategoryNames, TRUE), q \in NameQueries}

AnalyzeSupplierCall ==
    /\ mResult.kind = "none"
    /\ mCall.tool = "analyze_supplier"
    /\ mResult' = AnalyzeSupplierNamed(mCall.table, mCall.query)
    /\ UNCHANGED <<mCall, outsideMatch>>

CheckInventoryCall ==
    /\ mResult.kind = "none"
    /\ mCall.tool = "check_inventory_status"
    /\ mResult' = CheckInventoryNamed(mCall.table, mCall.query)
    /\ UNCHANGED <<mCall, outsideMatch>>

NextMatch == AnalyzeSupplierCall \/ CheckInventoryCall

----------------------------------------------------------------------------
(* Specifications *)

InitForecast ==
    /\ forecasters = [i \in ForecasterIds |-> FreshForecaster]
    /\ trainCache = {}
    /\ fTrained = [i \in ForecasterIds |-> NoKey]
    /\ fResult = IdleFResult
    /\ predictors = [i \in PredictorIds |-> FreshPredictor]
    /\ dpCache = {}
    /\ dResult = IdleDResult
    /\ tCall = IdleTCall
    /\ tResult = IdleTResult
    /\ client = "none"
    /\ conversation_history = <<>>
    /\ messages = <<>>
    /\ pc = "idle"
    /\ iteration = 0
    /\ requests = 0
    /\ pending = 0
    /\ chatSteps = 0
    /\ lastExec = NoExec
    /\ chatResult = "none"
    /\ chats = 0
    /\ routed = NoRouted
    /\ responses = {}
    /\ lastError = NoError
    /\ scoreInput = <<>>
    /\ scoreRows = <<>>
    /\ invCall = IdleInvCall
    /\ invResult = IdleInvResult
    /\ mCall = IdleMCall
    /\ mResult = IdleMResult
    /\ frame = "orders"
    /\ suggestions = NoCall

SpecForecast == InitForecast /\ [][NextForecast]_vars

InitDelivery == InitForecast

SpecDelivery == InitDelivery /\ [][NextDelivery]_vars

InitTool ==
    /\ forecasters = [i \in ForecasterIds |-> FreshForecaster]
    /\ fTrained = [i \in ForecasterIds |-> NoKey]
    /\ fResult = IdleFResult
    /\ predictors = [i \in PredictorIds |-> FreshPredictor]
    /\ dpCache = {}
    /\ dResult = IdleDResult
    /\ tCall \in ToolCalls
    /\ trainCache \in CachesBefore(tCall)
    /\ tResult = IdleTResult
    /\ client = "none"
    /\ conversation_history = <<>>
    /\ messages = <<>>
    /\ pc = "idle"
    /\ iteration = 0
    /\ requests = 0
    /\ pending = 0
    /\ chatSteps = 0
    /\ lastExec = NoExec
    /\ chatResult = "none"
    /\ chats = 0
    /\ routed = NoRouted
    /\ responses = {}
    /\ lastError = NoError
    /\ scoreInput = <<>>
    /\ scoreRows = <<>>
    /\ invCall = IdleInvCall
    /\ invResult = IdleInvResult
    /\ mCall = IdleMCall
    /\ mResult = IdleMResult
    /\ frame = "orders"
    /\ suggestions = NoCall

SpecTool == InitTool /\ [][NextTool]_vars

InitChat ==
    /\ forecasters = [i \in ForecasterIds |-> FreshForecaster]
    /\ trainCache = {}
    /\ fTrained = [i \in ForecasterIds |-> NoKey]
    /\ fResult = IdleFResult
    /\ predictors = [i \in PredictorIds |-> FreshPredictor]
    /\ dpCache = {}
    /\ dResult = IdleDResult
    /\ tCall = IdleTCall
    /\ tResult = IdleTResult
    /\ \E api_key \in ApiKeys, constructed \in BOOLEAN :
           client = ClientFor(api_key, constructed)
    /\ conversation_history = <<>>
    /\ messages = <<>>
    /\ pc = "idle"
    /\ iteration = 0
    /\ requests = 0
    /\ pending = 0
    /\ chatSteps = 0
    /\ lastExec = NoExec
    /\ chatResult = "none"
    /\ chats = 0
    /\ routed = NoRouted
    /\ responses = {}
    /\ lastError = NoError
    /\ scoreInput = <<>>
    /\ scoreRows = <<>>
    /\ invCall = IdleInvCall
    /\ invResult = IdleInvResult
    /\ mCall = IdleMCall
    /\ mResult = IdleMResult
    /\ frame \in (IF client = "none" THEN Frames ELSE {"orders"})
    /\ suggestions = NoCall

SpecChat == InitChat /\ [][NextChat]_vars

InitScore ==
    /\ forecasters = [i \in ForecasterIds |-> FreshForecaster]
    /\ trainCache = {}
    /\ fTrained = [i \in ForecasterIds |-> NoKey]
    /\ fResult = IdleFResult
    /\ predictors = [i \in PredictorIds |-> FreshPredictor]
    /\ dpCache = {}
    /\ dResult = IdleDResult
    /\ tCall = IdleTCall
    /\ tResult = IdleTResult
    /\ client = "none"
    /\ conversation_history = <<>>
    /\ messages = <<>>
    /\ pc = "idle"
    /\ iteration = 0
    /\ requests = 0
    /\ pending = 0
    /\ chatSteps = 0
    /\ lastExec = NoExec
    /\ chatResult = "none"
    /\ chats = 0
    /\ routed = NoRouted
    /\ responses = {}
    /\ lastError = NoError
    /\ scoreInput \in ScoreDatasets
    /\ scoreRows = <<>>
    /\ invCall = IdleInvCall
    /\ invResult = IdleInvResult
    /\ mCall = IdleMCall
    /\ mResult = IdleMResult
    /\ frame = "orders"
    /\ suggestions = NoCall

SpecScore == InitScore /\ [][NextScore]_vars

InitInventory ==
    /\ forecasters = [i \in ForecasterIds |-> FreshForecaster]
    /\ trainCache = {}
    /\ fTrained = [i \in ForecasterIds |-> NoKey]
    /\ fResult = IdleFResult
    /\ predictors = [i \in PredictorIds |-> FreshPredictor]
    /\ dpCache = {}
    /\ dResult = IdleDResult
    /\ tCall = IdleTCall
    /\ tResult = IdleTResult
    /\ client = "none"
    /\ conversation_history = <<>>
    /\ messages = <<>>
    /\ pc = "idle"
    /\ iteration = 0
    /\ requests = 0
    /\ pending = 0
    /\ chatSteps = 0
    /\ lastExec = NoExec
    /\ chatResult = "none"
    /\ chats = 0
    /\ routed = NoRouted
    /\ responses = {}
    /\ lastError = NoError
    /\ scoreInput = <<>>
    /\ scoreRows = <<>>
    /\ invCall \in EoqCalls \cup SafetyStockCalls \cup AnalysisCalls
    /\ invResult = IdleInvResult
    /\ mCall = IdleMCall
    /\ mResult = IdleMResult
    /\ frame = "orders"
    /\ suggestions = NoCall

SpecInventory == InitInventory /\ [][NextInventory]_vars

InitMatch ==
    /\ forecasters = [i \in ForecasterIds |-> FreshForecaster]
    /\ trainCache = {}
    /\ fTrained = [i \in ForecasterIds |-> NoKey]
    /\ fResult = IdleFResult
    /\ predictors = [i \in PredictorIds |-> FreshPredictor]
    /\ dpCache = {}
    /\ dResult = IdleDResult
    /\ tCall = IdleTCall
    /\ tResult = IdleTResult
    /\ client = "none"
    /\ conversation_history = <<>>
    /\ messages = <<>>
    /\ pc = "idle"
    /\ iteration = 0
    /\ requests = 0
    /\ pending = 0
    /\ chatSteps = 0
    /\ lastExec = NoExec
    /\ chatResult = "none"
    /\ chats = 0
    /\ routed = NoRouted
    /\ responses = {}
    /\ lastError = NoError
    /\ scoreInput = <<>>
    /\ scoreRows = <<>>
    /\ invCall = IdleInvCall
    /\ invResult = IdleInvResult
    /\ mCall \in MatchCalls
    /\ mResult = IdleMResult
    /\ frame = "orders"
    /\ suggestions = NoCall

SpecMatch == InitMatch /\ [][NextMatch]_vars

----------------------------------------------------------------------------
(* Claims about the trainable engines *)

\* C1: every train call that returns leaves the instance it was called on
\* holding the trained model of that request (model set, feature columns
\* populated), also when the request is served from the memoization cache; a
\* get_feature_importance that follows is not empty, and a repeated identical
\* run_demand_forecast request returns a successful payload again.
C1_TrainLeavesModel ==
    /\ (fResult.op = "train" /\ fResult.kind = "returned")
          => /\ forecasters[fResult.inst].model = fResult.key
             /\ forecasters[fResult.inst].feature_columns # {}
    /\ (fResult.op = "get_feature_importance" /\ fTrained[fResult.inst] # NoKey)
          => fResult.rows # NoRows
    /\ (fResult.op = "run_demand_forecast" /\ fResult.cached)
          => fResult.kind = "payload"

LastOrderDate(k) == OrderDates[k][Len(OrderDates[k])]

\* C6: forecast_future called after train on the same instance with the same
\* dataset and category returns exactly horizon_days rows, all with
\* predicted_demand >= 0, the dates increasing by one day from the day after
\* the last date of the training data.
C6_ForecastRows ==
    (/\ fResult.op = "forecast_future"
     /\ fTrained[fResult.inst] = fResult.key)
        => /\ fResult.kind = "returned"
           /\ Len(fResult.rows) = fResult.horizon
           /\ \A j \in 1..Len(fResult.rows) :
                 /\ fResult.rows[j].predicted_demand >= 0
                 /\ fResult.rows[j].date = LastOrderDate(fResult.key) + j

\* C7: predict_single on a DeliveryPredictor that holds no model fails with
\* ModelNotTrainedError instead of returning a value, and the caller recovers
\* by training: after a train call that returns, the instance holds a model.
C7_UntrainedPredictRaises ==
    /\ (dResult.op = "predict_single" /\ predictors[dResult.inst].model = NoModel)
          => /\ dResult.kind = "raised"
             /\ dResult.value.error = "ModelNotTrainedError"
    /\ (dResult.op = "train" /\ dResult.kind = "returned")
          => predictors[dResult.inst].model # NoModel

\* The codes a fitted encoder gives its own classes are distinct and >= 0.
SeenCodesDistinct(classes, seen) ==
    \A v \in seen :
        /\ EncodeValue(classes, v) >= 0
        /\ \A w \in seen : v # w => EncodeValue(classes, v) # EncodeValue(classes, w)

\* late_probability + on_time_probability of the last result, in float64.
ProbabilitySum ==
    FAdd[dResult.value.late_probability, dResult.value.on_time_probability]
\* 2^-24, half the spacing of the float32 values below 1.
SumTolerance == [s |-> 1, m |-> <<1>>, e |-> -24]

\* C8 as stated: on a trained DeliveryPredictor predict_single never raises;
\* a categorical value absent from the data the model was trained on is
\* encoded as -1, the values of that data get distinct non-negative codes, and
\* the two probabilities sum to 1.
C8_UnseenInTrainingData ==
    (dResult.op = "predict_single" /\ predictors[dResult.inst].model # NoModel)
        => LET p == predictors[dResult.inst]
           IN /\ dResult.kind = "returned"
              /\ FCmp[ProbabilitySum, FOne] = 0
              /\ \A c \in CategoricalCols :
                    LET seen == ColumnValues[p.model][c]
                    IN /\ (dResult.order[c] # Missing /\ dResult.order[c] \notin seen)
                            => dResult.value.encoded[c] = -1
                       /\ SeenCodesDistinct(p.label_encoders.classes[c], seen)

\* C8 as amended: on a trained DeliveryPredictor predict_single never raises;
\* a categorical value absent from the data the instance's encoders were
\* fitted on (the first train body run on the instance, which a later train
\* on other data does not refit) is encoded as -1, a value of that data as its
\* position among the sorted distinct values, so that these get distinct
\* non-negative codes, and the two probabilities sum to 1 within 2^-24 (the
\* float32 rounding of 1 - P(late)), not to 1 exactly.
C8_UnseenInFittedEncoders ==
    (dResult.op = "predict_single" /\ predictors[dResult.inst].model # NoModel)
        => LET p == predictors[dResult.inst]
           IN /\ dResult.kind = "returned"
              /\ FLe(FSub[FOne, SumTolerance], ProbabilitySum)
              /\ FLe(ProbabilitySum, FAdd[FOne, SumTolerance])
              /\ \A c \in CategoricalCols :
                    LET classes == p.label_encoders.classes[c]
                        x == dResult.order[c]
                    IN /\ c \in p.label_encoders.cols
                       /\ (x # Missing /\ x \notin classes)
                            => dResult.value.encoded[c] = -1
                       /\ (x # Missing /\ x \in classes)
                            => dResult.value.encoded[c]
                                   = Cardinality({v \in classes : v < x})
                       /\ \A v \in classes, w \in classes :
                            v # w => Cardinality({u \in classes : u < v})
                                       # Cardinality({u \in classes : u < w})

\* A value of the later training data that the fitted encoders do not know
\* is encoded as -1, in a result whose probabilities do not sum to 1 exactly.
C8_Witness ==
    /\ dResult.op = "predict_single"
    /\ predictors[dResult.inst].model # NoModel
    /\ \E c \in CategoricalCols :
          /\ dResult.order[c] # Missing
          /\ dResult.order[c] \notin predictors[dResult.inst].label_encoders.classes[c]
          /\ dResult.order[c] \in ColumnValues[predictors[dResult.inst].model][c]
          /\ dResult.value.encoded[c] = -1
    /\ FCmp[ProbabilitySum, FOne] # 0

----------------------------------------------------------------------------
(* Claims about the tool bridge *)

\* C2: for every registered tool name and every argument object (unknown
\* parameter names, wrongly typed values, values that make the engine fail)
\* execute_tool does not raise: it returns a JSON object, the tool's payload,
\* or {error: message} when the implementation raised.
C2_ExecuteToolReturnsJson ==
    (tResult.kind # "none" /\ tCall.tool \in ToolNames)
        => /\ tResult.kind = "returned"
           /\ tResult.json.type = "object"
           /\ tResult.ran
           /\ tResult.implRaised => tResult.json.keys = {"error"}
           /\ ~tResult.implRaised => tResult.json.keys # {}
           /\ BindRaises(tCall.tool, tCall.args) => tResult.json.keys = {"error"}

C2_Witness ==
    /\ tResult.kind = "returned"
    /\ tCall.tool = "predict_delivery_risk"
    /\ Is(tCall.args, "category", "number")
    /\ Is(tCall.args, "quantity", "match")
    /\ tResult.implRaised
    /\ tResult.json.keys = {"error"}

\* C3: execute_tool called with a name that is not one of the seven
\* registered names returns a JSON object with the key "error", runs no tool
\* implementation and does not raise.
C3_UnknownToolIsError ==
    (tResult.kind # "none" /\ tCall.tool \notin ToolNames)
        => /\ tResult.kind = "returned"
           /\ tResult.json.type = "object"
           /\ "error" \in tResult.json.keys
           /\ ~tResult.ran

C3_Witness ==
    /\ tCall.tool = "nonexistent_tool"
    /\ DOMAIN tCall.args = {}
    /\ tResult.kind = "returned"
    /\ "error" \in tResult.json.keys

----------------------------------------------------------------------------
(* Claims: agent loop *)

\* Responses of the current chat call that asked for tool calls.
ToolCallResponses ==
    Cardinality({i \in 1..Len(messages) :
                    messages[i].role = "assistant" /\ messages[i].id[2] > 0})

\* C4: a chat call in LLM mode ends after a bounded number of loop steps and
\* sends at most 5 requests to the reasoning service; when each of the 5
\* responses asked for tool calls, the call returns the fixed "reached maximum
\* reasoning iterations" message.
C4_ChatBounded ==
    /\ requests <= max_iterations
    /\ chatSteps <= max_iterations * (1 + MaxToolCalls)
    /\ (pc = "idle" /\ chatResult \notin {"none", "fallback"}
            /\ ToolCallResponses = max_iterations)
           => chatResult = "max_iterations"

\* C5: no argument payload of a tool call crashes the loop; a payload that is
\* not well-formed JSON reaches execute_tool as the empty argument object and
\* the tool call returns.
C5_MalformedPayloadIsEmptyObject ==
    /\ chatResult # "crashed"
    /\ lastExec.form \in {"malformed", "malformed_deep"}
           => /\ lastExec.arguments = NoArgs
              /\ lastExec.result.kind = "returned"

----------------------------------------------------------------------------
(* Claims: supplier scoring *)

\* C9: every scored row carries the grade and the risk level of the
\* lower-inclusive bin of its overall score: [0,0.3) F/Critical, [0.3,0.5)
\* D/High, [0.5,0.65) C/Medium, [0.65,0.8) B/Low, [0.8,1.0] A/Very Low, a
\* score on a cut point belonging to the bin that starts there.
C9_LowerInclusiveBins ==
    \A i \in DOMAIN scoreRows :
        LET x == scoreRows[i].overall_score
        IN \E k \in 1..5 :
               /\ FLe(CutBins[k], x)
               /\ FLt(x, CutBins[k + 1]) \/ (k = 5 /\ x = FOne)
               /\ scoreRows[i].grade = GradeLabels[k]
               /\ scoreRows[i].risk_level = RiskLabels[k]

\* C10: every scored row has its six dimension scores and its overall score
\* in [0,1]; the overall score is 0.30 delivery_performance + 0.20
\* profitability + 0.15 volume_capability + 0.15 order_reliability + 0.10
\* cost_efficiency + 0.10 product_diversity, and the weights sum to 1.
C10_ScoresInUnitInterval ==
    /\ WeightedSum[[m \in Dimensions |-> FOne], Len(WeightOrder)] = FOne
    /\ \A i \in DOMAIN scoreRows :
           LET r == scoreRows[i]
               sc == r.scores
           IN /\ DOMAIN sc = {"delivery_performance", "profitability",
                              "volume_capability", "order_reliability",
                              "cost_efficiency", "product_diversity"}
              /\ \A m \in DOMAIN sc : FLe(FZero, sc[m]) /\ FLe(sc[m], FOne)
              /\ FLe(FZero, r.overall_score) /\ FLe(r.overall_score, FOne)
              /\ r.overall_score =
                     FAdd[FAdd[FAdd[FAdd[FAdd[
                         FMul[sc.delivery_performance, FDec(30, 100)],
                         FMul[sc.profitability, FDec(20, 100)]],
                         FMul[sc.volume_capability, FDec(15, 100)]],
                         FMul[sc.order_reliability, FDec(15, 100)]],
                         FMul[sc.cost_efficiency, FDec(10, 100)]],
                         FMul[sc.product_diversity, FDec(10, 100)]]

----------------------------------------------------------------------------
(* Claims: inventory formulas *)

\* C11: for every service level strictly between 0 and 1 and non-negative
\* demand and lead-time arguments, calculate_safety_stock returns
\* reorder_point >= safety_stock >= 0.
C11_ReorderPointAboveSafetyStock ==
    invResult.op = "calculate_safety_stock"
        => /\ invResult.value.reorder_point >= invResult.value.safety_stock
           /\ invResult.value.safety_stock >= 0

\* C12: calculate_eoq returns 0 when annual_demand <= 0 or unit_price *
\* holding_cost_rate <= 0, and otherwise the whole number nearest to
\* sqrt(2 * annual_demand * ordering_cost / (unit_price * holding_cost_rate));
\* 224 for demand 10000, ordering cost 50, price 100 and rate 0.20.
C12_EoqGuardedSquareRoot ==
    invResult.op = "calculate_eoq"
        => LET D == invCall.annual_demand
               S == invCall.ordering_cost
               H == invCall.unit_price * invCall.holding_cost_rate
               n == invResult.eoq
           IN /\ (D <= 0 \/ H <= 0) => n = 0
              /\ (D > 0 /\ H > 0) =>
                     /\ n >= 0
                     /\ n = 0 \/ (2 * n - 1) * (2 * n - 1) * H <= 800 * D * S
                     /\ 800 * D * S <= (2 * n + 1) * (2 * n + 1) * H
              /\ (D = 10000 /\ S = 50 /\ invCall.unit_price = 100
                      /\ invCall.holding_cost_rate = 20) => n = 224

C12_Witness ==
    /\ invCall.op = "calculate_eoq"
    /\ invCall.annual_demand = 10000 /\ invCall.ordering_cost = 50
    /\ invCall.unit_price = 100 /\ invCall.holding_cost_rate = 20
    /\ invResult.op = "calculate_eoq"
    /\ invResult.eoq = 224

----------------------------------------------------------------------------
(* Claims: inventory analysis and recommendations *)

\* The recommendations of a given kind made for a category.
RecsFor(category, kind) ==
    SelectSeq(invResult.recommendations,
              LAMBDA r : r.category = category /\ r.action.kind = kind)
OrderCount(k) == SumSeq(invCall.df[k].daily)
LateCount(k) == Min(invCall.df[k].late, OrderCount(k))

\* C13 as stated: every row of the analysis gets exactly one Medium-priority
\* EOQ cadence recommendation.
C13_EoqRecommendationAlways ==
    invResult.op = "get_recommendations"
        => \A i \in DOMAIN invResult.analysis :
               Len(RecsFor(invResult.analysis[i].category, "order_eoq")) = 1

\* C13: a row of the analysis gets exactly one Medium-priority EOQ cadence
\* recommendation when its eoq, its avg_daily_demand and its annual_demand are
\* positive, and none otherwise, whatever other rules fire for the row.
C13_EoqRecommendationWhenPositive ==
    invResult.op = "get_recommendations"
        => \A i \in DOMAIN invResult.analysis :
               LET row == invResult.analysis[i]
                   recs == RecsFor(row.category, "order_eoq")
               IN /\ Len(recs) = IF row.eoq > 0 /\ row.avg_daily_demand > 0
                                     /\ row.annual_demand > 0
                                  THEN 1 ELSE 0
                  /\ \A j \in DOMAIN recs :
                         recs[j].priority = "Medium" /\ recs[j].action.units = row.eoq

\* Two rows: one with a late-delivery recommendation and an EOQ
\* recommendation, one with eoq 0 and no EOQ recommendation.
C13_Witness ==
    /\ invResult.op = "get_recommendations"
    /\ Len(invResult.analysis) = 2
    /\ invResult.analysis[1].eoq > 0
    /\ Len(RecsFor("Cleats", "increase_reorder_point")) = 1
    /\ Len(RecsFor("Cleats", "order_eoq")) = 1
    /\ invResult.analysis[2].eoq = 0
    /\ Len(RecsFor("Fishing", "order_eoq")) = 0

\* C14 as stated: a category of the dataset gets a High-priority late-delivery
\* recommendation exactly when its late-delivery rate exceeds 60%.
C14_LateRecommendationAboveSixty ==
    invResult.op = "get_recommendations"
        => \A k \in 1..Len(InvCategories) :
               OrderCount(k) > 0 =>
                   (Len(RecsFor(InvCategories[k], "increase_reorder_point")) >= 1
                        <=> 100 * LateCount(k) > 60 * OrderCount(k))

\* C14: a category with at least 10 orders gets exactly one High-priority
\* late-delivery recommendation when its late-delivery rate, in percent
\* rounded to one decimal, exceeds 60, and none otherwise; a category with
\* fewer than 10 orders gets none.
C14_LateRecommendationReportedAboveSixty ==
    invResult.op = "get_recommendations"
        => \A k \in 1..Len(InvCategories) :
               LET recs == RecsFor(InvCategories[k], "increase_reorder_point")
               IN /\ Len(recs) =
                         IF OrderCount(k) >= 10
                            /\ Rounded[FMul[FDiv[FFromInt[LateCount(k)], FFromInt[OrderCount(k)]],
                                            FFromInt[100]], 1] > 600
                         THEN 1 ELSE 0
                  /\ \A j \in DOMAIN recs : recs[j].priority = "High"

\* Category A never late, category B always late, both with 10 orders or
\* more: B has the recommendation, A has not.
C14_Witness ==
    /\ invResult.op = "get_recommendations"
    /\ OrderCount(1) >= 10 /\ LateCount(1) = 0
    /\ OrderCount(2) >= 10 /\ LateCount(2) = OrderCount(2)
    /\ Len(RecsFor("Cleats", "increase_reorder_point")) = 0
    /\ Len(RecsFor("Fishing", "increase_reorder_point")) = 1

\* C15: analyze_inventory returns one row for each category with at least 10
\* orders and none for a category with fewer; the row of a category is the
\* one its orders alone give, whatever the other categories are.
C15_RowsForTenOrders ==
    invResult.op = "analyze_inventory"
        => /\ \A k \in 1..Len(InvCategories) :
                  Cardinality({i \in DOMAIN invResult.analysis :
                                  invResult.analysis[i].category = InvCategories[k]})
                      = IF OrderCount(k) >= 10 THEN 1 ELSE 0
           /\ \A i \in DOMAIN invResult.analysis :
                  \E k \in 1..Len(InvCategories) :
                      /\ invResult.analysis[i].category = InvCategories[k]
                      /\ \E scipy \in ScipyBuilds :
                             invResult.analysis[i] \in
                                 AnalyzeCategory(InvCategories[k],
                                                 ProfileOrders(InvCategories[k], invCall.df[k]),
                                                 scipy)
                      /\ invResult.analysis[i].total_orders = OrderCount(k)

\* A category with 9 orders next to one with exactly 10: one row, for the latter.
C15_Witness ==
    /\ invResult.op = "analyze_inventory"
    /\ OrderCount(1) = 9
    /\ OrderCount(2) = 10
    /\ Len(invResult.analysis) = 1
    /\ invResult.analysis[1].category = "Fishing"

----------------------------------------------------------------------------
(* Claims: query filters *)

QueryFilters == {"category", "region", "department"}

\* C16: when the filters of query_supply_chain_data (category, region,
\* department, time period, in any combination) match zero rows, execute_tool
\* returns the JSON object {"message": ...} without an "error" key and
\* nothing is raised.
C16_ZeroRowsIsMessage ==
    (/\ tResult.kind # "none"
     /\ tCall.tool = "query_supply_chain_data"
     /\ DOMAIN tCall.args \subseteq QueryFilters \cup {"time_period"}
     /\ \A n \in DOMAIN tCall.args : tCall.args[n] # "number"
     /\ \/ tCall.df = "zero_rows"
        \/ \E n \in QueryFilters :
               Is(tCall.args, n, "nomatch") \/ Is(tCall.args, n, "bad_pattern"))
        => /\ tResult.kind = "returned"
           /\ tResult.json = JsonObject({"message"})
           /\ ~tResult.implRaised

----------------------------------------------------------------------------
(* Claims: fallback router and request failures *)

\* A keyword taken as a word of the message: it occurs with no letter before
\* it and none after it.
IsLetter(c) == \E i \in 1..Len(LowerCase) : LowerCase[i] = c
HasWord(w, t) ==
    \E i \in 1..Len(t) :
        /\ OccursAt(w, t, i)
        /\ i = 1 \/ ~IsLetter(t[i - 1])
        /\ i + Len(w) > Len(t) \/ ~IsLetter(t[i + Len(w)])
IntentGroups(msg) ==
    {g \in 1..GroupCount : \E w \in KeywordGroups[g] : HasWord(w, msg)}
GroupTools(g) ==
    CASE g = 1 -> {"query_supply_chain_data"}
      [] g = 2 -> {"run_demand_forecast"}
      [] g = 3 -> {"analyze_supplier", "query_supply_chain_data"}
      [] g = 4 -> {"check_inventory_status"}
      [] g = 5 -> {"predict_delivery_risk"}
      [] g = 6 -> {"get_top_products"}
      [] OTHER -> {"compare_regions"}

\* C17: in fallback mode a message whose intent words come from exactly one
\* group of the keyword table is routed to that group's tool (inventory,
\* stock, reorder to check_inventory_status; delivery, late, delay, shipping
\* to predict_delivery_risk), and a message with no keyword gets the static
\* help text.
C17_SingleGroupRouting ==
    routed.tool # "none" =>
        LET groups == IntentGroups(LowerText(routed.message))
        IN /\ \A g \in 1..GroupCount : groups = {g} => routed.tool \in GroupTools(g)
           /\ groups = {} => routed.tool = "help"

\* C18: without a client every chat call is answered by the keyword router
\* alone: no request is sent to the reasoning service, the conversation
\* history is left unchanged, and the same message on the same dataset gets
\* the same response.
C18_FallbackDeterministic ==
    client = "none" =>
        /\ requests = 0
        /\ pc = "idle"
        /\ conversation_history = <<>>
        /\ \A a, b \in responses : a.message = b.message => a = b

\* C19: a failed request to the reasoning service ends the chat call with a
\* guidance string: invalid-credential guidance when the error text contains
\* "401" or "Unauthorized", else rate-limit guidance when it contains "429",
\* else unknown-model guidance when it contains "404", else the generic
\* failure message; the loop stops at that failure.
C19_FailureGuidance ==
    lastError # NoError =>
        /\ pc = "idle"
        /\ pending = 0
        /\ chatResult # "crashed"
        /\ Has401(lastError) \/ HasUnauthorized(lastError)
               => chatResult = "invalid_api_key"
        /\ ~Has401(lastError) /\ ~HasUnauthorized(lastError) /\ Has429(lastError)
               => chatResult = "rate_limit"
        /\ ~Has401(lastError) /\ ~HasUnauthorized(lastError) /\ ~Has429(lastError)
           /\ Has404(lastError)
               => chatResult = "model_not_found"
        /\ ~Has401(lastError) /\ ~HasUnauthorized(lastError) /\ ~Has429(lastError)
           /\ ~Has404(lastError)
               => chatResult = "api_error"

\* A request fails, after a round of tool calls, with a text holding both
\* "401" and "429": the invalid-credential guidance is returned.
C19_Witness ==
    /\ lastError = <<"4", "0", "1", " ", "a", "f", "t", "e", "r", " ", "4", "2", "9">>
    /\ chatResult = "invalid_api_key"
    /\ iteration > 0
    /\ pc = "idle"

----------------------------------------------------------------------------
(* Claims: name matching *)

\* The name contains the text, ignoring case.
ContainsIgnoringCase(name, text) == In(LowerText(text), LowerText(name))
Candidates(table, text) ==
    {i \in 1..Len(table) : ContainsIgnoringCase(table[i], text)}

\* C20: analyze_supplier and check_inventory_status take as candidates
\* exactly the entities whose name contains the requested text ignoring
\* case; they report the first candidate of the result table, and return
\* the not-found error when there is none.
C20_SubstringCandidates ==
    (/\ mResult.kind # "none"
     /\ mCall.tool = "check_inventory_status" => mCall.query # <<>>)
        => LET c == Candidates(mCall.table, mCall.query)
           IN IF c = {}
              THEN mResult.kind = "not_found"
              ELSE /\ mResult.kind = "reported"
                   /\ mResult.match = c
                   /\ mResult.name = mCall.table[FirstOf(c)]

----------------------------------------------------------------------------
(* Claims: improvement suggestions *)

SuggestionsFor(d) ==
    {i \in 1..Len(suggestions.list) : suggestions.list[i].supplier = d}
ScoredRow(d) == scoreRows[CHOOSE i \in 1..Len(scoreRows) : scoreRows[i].supplier = d]
\* The dimension a suggestion names.
NamedDimension(i) ==
    CHOOSE m \in Dimensions : AreaTitle[m] = suggestions.list[i].weakest_area

\* C21: get_improvement_suggestions emits exactly one suggestion for each
\* scored entity with a dimension score below 0.5, naming a dimension whose
\* score is the lowest of those below 0.5, and none for an entity whose six
\* dimension scores are all at least 0.5.
C21_OneSuggestionForWeakest ==
    suggestions.called =>
        \A r \in 1..Len(scoreRows) :
            LET row == scoreRows[r]
                low == {m \in Dimensions : FLt(row.scores[m], FDec(5, 10))}
                mine == SuggestionsFor(row.supplier)
            IN IF low = {}
               THEN mine = {}
               ELSE /\ Cardinality(mine) = 1
                    /\ \A i \in mine :
                           /\ \E m \in Dimensions :
                                  AreaTitle[m] = suggestions.list[i].weakest_area
                           /\ NamedDimension(i) \in low
                           /\ \A m \in low :
                                  FLe(row.scores[NamedDimension(i)], row.scores[m])

\* An entity with two of three orders late, so a delivery performance of
\* 1 - 2/3, and a volume capability of 0 gets one suggestion, naming volume
\* capability, not the heavier-weighted delivery performance.
C21_Witness ==
    /\ suggestions.called
    /\ \E r \in 1..Len(scoreRows) :
           /\ scoreRows[r].scores.delivery_performance =
                  FSub[FOne, FDiv[FFromInt[2], FFromInt[3]]]
           /\ scoreRows[r].scores.volume_capability = FZero
           /\ \E i \in SuggestionsFor(scoreRows[r].supplier) :
                  /\ suggestions.list[i].weakest_area = "Volume Capability"
                  /\ suggestions.list[i].suggestion.kind = "low_volume"

----------------------------------------------------------------------------
(* Claims: training data size and the chronological split *)

\* A series that train_test_split(test_size=0.2) cannot split: no row at
\* all, or no row left for the training part.
Unsplittable(k) == Len(Prepared[k]) = 0 \/ TrainRows(Len(Prepared[k])) = 0

\* C22: DemandForecaster.train on a daily series that, after the rows with
\* an undefined lag are dropped, has fewer rows than the 80/20 split needs
\* fails with InsufficientDataError and fits no model.
C22_InsufficientDataError ==
    (fResult.op = "train" /\ ~fResult.cached /\ Unsplittable(fResult.key)) =>
        /\ fResult.kind = "raised"
        /\ fResult.error = "InsufficientDataError"

\* C26: DemandForecaster.train splits the feature rows without shuffling:
\* the training part is the first 80% of the rows in date order (rounded
\* down), the held-out part is the remaining last rows, the two parts
\* together are the rows in their order, and every training date is
\* strictly earlier than every held-out date.
C26_ChronologicalSplit ==
    (fResult.op = "train" /\ fResult.kind = "returned" /\ ~fResult.cached) =>
        LET all == RowDates(Prepared[fResult.key])
            tr  == fResult.train_dates
            te  == fResult.test_dates
        IN /\ Len(tr) = (4 * Len(all)) \div 5
           /\ tr \o te = all
           /\ \A a \in 1..Len(tr) : \A b \in 1..Len(te) : tr[a] < te[b]
           /\ {tr[a] : a \in 1..Len(tr)} \cap {te[b] : b \in 1..Len(te)} = {}

\* The 32 feature rows of the 60-date history are split into the 25 rows
\* dated 31..55 for training and the 7 rows dated 56..62 held out.
C26_Witness ==
    /\ fResult.op = "train" /\ fResult.kind = "returned" /\ ~fResult.cached
    /\ Len(fResult.train_dates) = 25 /\ Len(fResult.test_dates) = 7
    /\ fResult.train_dates[1] = 31 /\ fResult.train_dates[25] = 55
    /\ fResult.test_dates[1] = 56 /\ fResult.test_dates[7] = 62

----------------------------------------------------------------------------
(* Claims: lag features *)

\* The last (up to 30) observed daily demands of a request's history.
ObservedTail(k) ==
    LastN([j \in 1..Len(DailyDemand[k]) |-> DailyDemand[k][j].demand], RecentWindow)

\* C24: in forecast_future the lag-k feature of the i-th future day is the
\* prediction made for day i-k when i > k, and otherwise the observed demand
\* k-i positions before the end of the last (up to 30) observed daily
\* demands; every prediction is at least 0 and there is one row per day.
C24_ForecastLagPositions ==
    (fResult.op = "forecast_future" /\ fResult.kind = "returned"
         /\ fResult.rows # NoRows) =>
        LET rows == fResult.rows
            hist == ObservedTail(fResult.key)
        IN /\ Len(rows) = fResult.horizon
           /\ \A i \in 1..Len(rows) :
                  /\ rows[i].predicted_demand >= 0
                  /\ \A k \in Lags :
                         IF i > k
                         THEN rows[i].lag[k] = rows[i - k].predicted_demand
                         ELSE k - i < Len(hist) =>
                                  rows[i].lag[k] = hist[Len(hist) - (k - i)]

\* The summed demand of calendar date d in a request's orders (0 on a date
\* without orders).
DemandOn(k, d) == SumQty({o \in FilteredOrders[k] : o.date = d})

\* C25: in the rows _prepare_data builds for a training call, the lag-k
\* feature of the row for calendar date d is the summed demand of calendar
\* date d minus k days, for histories with missing dates too.
C25_LagIsCalendarOffset ==
    (fResult.op = "train" /\ ~fResult.cached) =>
        \A j \in 1..Len(Prepared[fResult.key]) : \A k \in Lags :
            Prepared[fResult.key][j].lag[k]
                = DemandOn(fResult.key, Prepared[fResult.key][j].order_date - k)

----------------------------------------------------------------------------
(* Claims: delivery risk label *)

\* C23: predict_single labels the risk from the late probability alone:
\* High above 0.7, Medium above 0.4 and up to 0.7, Low up to 0.4, so the
\* boundary 0.7 is Medium and the boundary 0.4 is Low. The probability is the
\* late_probability of the result; no float32 lies between the float64 0.4 or
\* 0.7 and the real number, so the float64 cuts decide as the real cuts do.
C23_RiskFromLateProbability ==
    (dResult.op = "predict_single" /\ dResult.value.keys = PredictionKeys) =>
        LET p == dResult.value.late_probability
        IN dResult.value.risk_level =
               (IF FLt(HighCut, p) THEN "High"
                ELSE IF FLt(MediumCut, p) THEN "Medium"
                ELSE "Low")

----------------------------------------------------------------------------
(* Claims: the tool loop of chat *)

\* The tool messages of the assistant message at position q, as far as they
\* have been appended: the j-th message after it answers the j-th call (the
\* calls of a response with n calls carry the ids n, n-1, .., 1).
AnswersInOrder(msgs, q) ==
    \A j \in 1..msgs[q].id[2] :
        q + j <= Len(msgs) =>
            msgs[q + j] = [role |-> "tool",
                           id |-> <<msgs[q].id[1], msgs[q].id[2] - j + 1>>]

\* Every tool message answers a call of the closest assistant message before it.
ToolMessagesBelong(msgs) ==
    \A q \in 1..Len(msgs) :
        msgs[q].role = "tool" =>
            \E a \in 1..(q - 1) :
                /\ msgs[a].role = "assistant"
                /\ q - a <= msgs[a].id[2]

\* Every tool call of every assistant message has its tool message.
AllAnswered(msgs) ==
    \A q \in 1..Len(msgs) :
        msgs[q].role = "assistant" => q + msgs[q].id[2] <= Len(msgs)

\* C27: within one chat call the loop appends the assistant message of a
\* response with tool calls and then exactly one tool message per call, in
\* the order of the calls and tagged with the call's id; a request is sent
\* only when every tool call of the earlier responses is answered; and no
\* tool message enters conversation_history.
C27_ToolResultsBeforeNextRequest ==
    [][/\ \A q \in 1..Len(messages') :
              messages'[q].role = "assistant" => AnswersInOrder(messages', q)
       /\ ToolMessagesBelong(messages')
       /\ requests' > requests => AllAnswered(messages)
       /\ \A q \in 1..Len(conversation_history') :
              conversation_history'[q].role \in {"user", "assistant"}]_vars

\* A response with two tool calls was answered by two tool messages, in
\* order, and the next request then brought the final answer.
C27_Witness ==
    /\ chatResult = "answer"
    /\ requests = 2
    /\ \E q \in 1..Len(messages) :
           /\ messages[q] = [role |-> "assistant", id |-> <<1, 2>>]
           /\ q + 2 = Len(messages)
           /\ messages[q + 1] = [role |-> "tool", id |-> <<1, 2>>]
           /\ messages[q + 2] = [role |-> "tool", id |-> <<1, 1>>]

----------------------------------------------------------------------------
(* Claims: conversation history *)

\* C28: whenever a chat call in LLM mode has returned (the final answer, a
\* translated service error or the iteration-cap message),
\* conversation_history alternates user, assistant, user, assistant, ..
\* and ends with the assistant reply: no user message is left without an
\* assistant message after it.
C28_HistoryAlternates ==
    (pc = "idle" /\ client # "none" /\ chatResult \notin {"none", "crashed"}) =>
        /\ Len(conversation_history) % 2 = 0
        /\ \A q \in 1..Len(conversation_history) :
               conversation_history[q].role =
                   (IF q % 2 = 1 THEN "user" ELSE "assistant")

----------------------------------------------------------------------------
(* Claims: fallback mode never raises *)

\* C29: in fallback mode chat returns a text for every user message and
\* every dataset, without raising, also when the routed tool returns a
\* "No data found" message payload or an error payload (a dataset of zero
\* rows).
C29_FallbackNeverRaises ==
    (client = "none" /\ routed # NoRouted) =>
        /\ chatResult = "fallback"
        /\ routed.response \in {"help", "error", "formatted"}

----------------------------------------------------------------------------
(* Claims: recommendations per row *)

RecKinds == {"increase_safety_stock", "increase_reorder_point", "order_eoq",
             "reduce_safety_stock"}
\* All recommendations made for a category.
AllRecsFor(category) ==
    SelectSeq(invResult.recommendations, LAMBDA r : r.category = category)

\* C30: for every row of the analysis get_recommendations emits between 0
\* and 3 recommendations, at most one per rule, and never both a High and
\* a Low one for the same category; the Low one is emitted only for a row
\* with CV below 30 and late-delivery rate below 40.
C30_RecommendationsPerRow ==
    invResult.op = "get_recommendations"
        => \A i \in DOMAIN invResult.analysis :
               LET row == invResult.analysis[i]
                   recs == AllRecsFor(row.category)
               IN /\ Len(recs) <= 3
                  /\ \A kind \in RecKinds : Len(RecsFor(row.category, kind)) <= 1
                  /\ \A j \in DOMAIN recs : recs[j].action.kind \in RecKinds
                  /\ ~(\E a, b \in DOMAIN recs :
                           recs[a].priority = "High" /\ recs[b].priority = "Low")
                  /\ (\E b \in DOMAIN recs : recs[b].priority = "Low")
                         => row.demand_cv < 300 /\ row.late_delivery_rate < 400

\* One row gets the three recommendations of the variability, late-delivery
\* and EOQ rules, and no Low one.
C30_Witness ==
    /\ invResult.op = "get_recommendations"
    /\ \E i \in DOMAIN invResult.analysis :
           LET c == invResult.analysis[i].category
           IN /\ Len(AllRecsFor(c)) = 3
              /\ Len(RecsFor(c, "increase_safety_stock")) = 1
              /\ Len(RecsFor(c, "increase_reorder_point")) = 1
              /\ Len(RecsFor(c, "order_eoq")) = 1

============================================================================
